---- MODULE Spec2Model ----
(***************************************************************************)
(* State-machine model of the ArtifyMe API (artifyme-api).                 *)
(*                                                                         *)
(* Every HTTP handler is an async function: between two awaits it runs     *)
(* without interruption on the Node event loop, and at every await other   *)
(* requests may run.  A handler is therefore modelled as a process whose   *)
(* program counter names the await it is suspended at; one action is one   *)
(* awaited operation (a Prisma query, a Redis command, a Keycloak call)    *)
(* together with the synchronous code that follows it up to the next       *)
(* await.                                                                  *)
(*                                                                         *)
(* The model has one group of variables per area of the API and one        *)
(* specification per area:                                                 *)
(*   SpecStart   POST /api/transform/start, admin credit grants            *)
(*   SpecJob     N8N completion webhook, the job cache and its events      *)
(*   SpecOrder   Stripe / Asaas payment webhooks on orders                 *)
(*   SpecSub     POST /api/payments/subscribe and subscription webhooks    *)
(*   SpecReset   password reset tokens                                     *)
(*   SpecReact   account reactivation tokens                               *)
(*   SpecExpiry  both token kinds under a moving clock                     *)
(*   SpecStatus  GET /api/transform/status/:jobId beside the N8N webhook   *)
(*   SpecRelay   the WebSocket process and its pub/sub subscriptions       *)
(*   SpecSig     signature and token checks of the webhook routes          *)
(*   SpecAuth    keycloakMiddleware and DELETE /api/users/me               *)
(*   SpecAsk     the password reset and reactivation request routes        *)
(*   SpecBoot    startServer, connectRedis and the Redis client            *)
(***************************************************************************)
EXTENDS Integers, Sequences, FiniteSets, TLC

\* ------------------------------------------------------------------ bounds
MaxStartReqs == 2      \* concurrent POST /start requests (one job id each)
MaxInitCredits == 1    \* largest credit balance a user starts with
MaxGrants == 1         \* admin credit grants
MaxHooks == 2          \* N8N completion webhook deliveries
MaxOrders == 2         \* Order rows
MaxPayHooks == 2       \* payment webhook deliveries
MaxSubReqs == 2        \* concurrent POST /subscribe requests
MaxSubHooks == 2       \* subscription webhook deliveries
MaxTokens == 1         \* token requests (one token id each), per kind of token
MaxConfirms == 2       \* concurrent confirm calls, per kind of token
MaxNow == 60           \* the clock stops here (minutes)
MaxStatusReqs == 1     \* GET /status/:jobId requests
MaxSockets == 2        \* WebSocket connections
MaxAuthReqs == 2       \* requests through keycloakMiddleware
MaxClientEvents == 3   \* 'ready' and 'error' events of the Redis client

\* ------------------------------------------------------- program constants
RESET_TTL_MINUTES == 30
TTL_MINUTES == 30

\* ------------------------------------------------------------- identities
Users == {"u1"}                       \* rows of the User table
Callers == Users \cup {"nouser"}      \* token subjects; "nouser" has no row
JobIds == 1..MaxStartReqs             \* uuidv4(): one fresh id per request
StartReqs == JobIds
GrantAmounts == {0, 1}                \* req.body.amount of an admin grant
Styles == {"cartoon"}
HookCalls == 1..MaxHooks
\* req.body of the completion webhook: a field N8N leaves out is undefined
Payloads == {[status |-> "success", outputUrl |-> "url", error |-> "undef"],
             [status |-> "error", outputUrl |-> "undef", error |-> "err"]}
OrderIds == 1..MaxOrders
PayHooks == 1..MaxPayHooks
\* part_001:24-28
PackageCredits == {10, 50, 150}
OrderTypes == {"credits", "subscription"}
\* the webhook events that touch an order (user.routes.ts:298, 350-357)
PayEvents == {"checkout.session.completed", "PAYMENT_CONFIRMED", "PAYMENT_RECEIVED",
              "PAYMENT_OVERDUE", "PAYMENT_DELETED"}
SubReqs == 1..MaxSubReqs
Regions == {"BR", "PT"}
\* the webhook events that touch a Subscription row (user.routes.ts:304-320, 360-368)
SubEvents == {"invoice.paid", "customer.subscription.updated:active",
              "customer.subscription.updated:other", "customer.subscription.deleted",
              "SUBSCRIPTION_CREATED", "SUBSCRIPTION_RENEWED", "SUBSCRIPTION_DELETED",
              "SUBSCRIPTION_INACTIVE"}
TokenIds == 1..MaxTokens             \* the row id; one per request
Confirms == 1..MaxConfirms
\* crypto.randomBytes(32).toString("hex")
Secrets == {"s1"}
\* the part of a presented token after the dot: the secret, another string, or
\* "" = a token with no secret
Presented == Secrets \cup {"s2", ""}
\* the new password; Keycloak holds "p0" before
Passwords == {"p1"}
TickMinutes == {15, 30}
SubStatuses == {"none", "inactive", "active", "cancelled"}
StatusReqs == 1..MaxStatusReqs
Sockets == 1..MaxSockets
\* subjects of the JWTs presented to the WebSocket server
WsSubjects == {"u1", "u2"}
\* the token query parameter: absent, not verifiable, or signed for a subject
WsTokens == {"", "bad", "jwt:u1", "jwt:u2"}
\* websocket-server.ts:168, 181, 194, in the order they are subscribed
Channels == <<"transformation:complete", "order:update", "notification">>
\* the signature header or access token of a webhook request: absent, of another
\* length than a signature, wrong, or the provider's
Signatures == {"none", "badlen", "bad", "good"}
AuthReqs == 1..MaxAuthReqs
\* the Authorization header: absent or malformed, a token Keycloak does not
\* know, or the access token of u1's session
BearerTokens == {"none", "junk", "t1"}

VARIABLES
  \* relational store
  credits,        \* User.credits, by user
  subscription,   \* status of the user's Subscription row, "none" = no row
  transformation, \* Transformation rows by job id, status "absent" = no row
  \* Redis
  cache,          \* key transformation:<jobId>
  queue,          \* list transformation:queue
  \* N8N
  n8n,            \* the workflow trigger of each job
  \* processes
  start,          \* POST /api/transform/start requests
  grants,         \* admin grants performed, and the last response
  \* Redis pub/sub and the N8N completion webhook
  published,      \* events published, in order
  hook,           \* POST /api/webhooks/n8n/transformation-complete requests
  \* payments
  order,          \* Order rows by id, status "absent" = no row
  payHook,        \* POST /api/webhooks/stripe and /asaas requests about payments
  \* subscriptions
  subReq,         \* POST /api/payments/subscribe requests
  providerSubs,   \* subscriptions created at Asaas / Stripe, by user
  subHooks,       \* subscription webhooks handled, and the last response
  \* accounts and tokens
  now,            \* Date.now(), in minutes
  deletedAt,      \* User.deletedAt is set, by user
  kc,             \* the Keycloak user: enabled, password, password resets done
  resetToken,     \* PasswordResetToken rows by id
  reactToken,     \* AccountReactivationToken rows by id
  resetReq,       \* requestPasswordReset calls
  reactReq,       \* requestReactivation calls
  resetCall,      \* confirmPasswordReset calls
  reactCall,      \* confirmReactivation calls
  \* readers
  statusReq,      \* GET /api/transform/status/:jobId requests
  \* the WebSocket process
  socket,         \* connections: readyState, subject, close code, messages received
  clients,        \* the clients map: sockets by user id
  ws,             \* channels subscribed, published messages arrived, ghost: due
  \* webhook verification
  env,            \* which webhook secrets process.env holds
  gate,           \* ghost: the signatures of the webhook requests made, by provider
  \* authentication
  mw,             \* requests in keycloakMiddleware
  authCache,      \* Redis key auth:v1:<t1>: "none", "pass" or "blocked"
  kcSession,      \* u1's session at Keycloak is alive
  deleteMe,       \* the DELETE /api/users/me request
  kcLog,          \* ghost: the Keycloak admin calls attempted, with their outcome
  \* start-up
  boot            \* startServer, connectRedis and the Redis client

vars == <<credits, subscription, transformation, cache, queue, n8n, start, grants,
          published, hook, order, payHook, subReq, providerSubs, subHooks,
          now, deletedAt, kc, resetToken, reactToken, resetReq, reactReq, resetCall,
          reactCall, statusReq, socket, clients, ws, env, gate, mw, authCache,
          kcSession, deleteMe, kcLog, boot>>

\* what each area of the API leaves alone
SubVars == <<subReq, providerSubs, subHooks>>
WsVars == <<socket, clients, ws>>
SigVars == <<env, gate>>
AuthVars == <<mw, authCache, kcSession, deleteMe, kcLog>>
EdgeVars == <<statusReq, WsVars, SigVars, AuthVars, boot>>
TokenVars == <<now, deletedAt, kc, resetToken, reactToken, resetReq, reactReq, resetCall,
               reactCall>>
StartFrame == <<published, hook, order, payHook, SubVars, TokenVars, EdgeVars>>
JobCore == <<credits, subscription, queue, n8n, start, grants, order, payHook, SubVars,
             TokenVars>>
JobFrame == <<JobCore, EdgeVars>>
StatusFrame == <<transformation, cache, published, hook, JobCore, WsVars, SigVars,
                AuthVars, boot>>
WsFrame == <<transformation, cache, published, hook, JobCore, statusReq, SigVars,
            AuthVars, boot>>
SigFrame == <<credits, subscription, transformation, cache, queue, n8n, start, grants,
              published, order, SubVars, TokenVars, statusReq, WsVars, env, AuthVars,
              boot>>
OrderFrame == <<subscription, transformation, cache, queue, n8n, start, grants, hook,
                SubVars, TokenVars, EdgeVars>>
SubFrame == <<credits, transformation, cache, queue, n8n, start, grants, published,
              hook, order, payHook, TokenVars, EdgeVars>>
TokenCore == <<credits, subscription, transformation, cache, queue, n8n, start, grants,
               published, hook, order, payHook, SubVars>>
TokenFrame == <<TokenCore, EdgeVars>>
AuthFrame == <<TokenCore, now, resetToken, reactToken, resetReq, reactReq, resetCall,
              reactCall, statusReq, WsVars, SigVars, boot>>
BootFrame == <<TokenCore, TokenVars, statusReq, WsVars, SigVars, AuthVars>>

\* ------------------------------------------------------------ record shapes
NoRow == [status |-> "absent", userId |-> "nouser", style |-> "none",
          outputImageUrl |-> "undef", errorMessage |-> "undef"]
NoJob == [status |-> "absent", id |-> 0, userId |-> "nouser", imageUrl |-> "none",
          style |-> "none", outputUrl |-> "undef", error |-> "undef"]
IdleHook == [pc |-> "idle", job |-> 0, body |-> [status |-> "none", outputUrl |-> "undef",
             error |-> "undef"], existing |-> NoJob, result |-> 0, nPub |-> 0]
NoOrder == [status |-> "absent", type |-> "none", userId |-> "nouser", credits |-> 0]
IdlePayHook == [pc |-> "idle", event |-> "none", orderId |-> 0, result |-> 0,
                credits |-> 0, userId |-> "nouser"]
IdleSubReq == [pc |-> "idle", user |-> "nouser", region |-> "none", seen |-> "none",
               result |-> 0, activeAtCall |-> FALSE]
NoToken == [exists |-> FALSE, userId |-> "nouser", tokenHash |-> <<"bcrypt", "">>,
            expiresAt |-> 0, usedAt |-> FALSE]
\* a token request: threw = the service rejected, reply = the route's status code
IdleReq == [pc |-> "idle", user |-> "nouser", threw |-> FALSE, reply |-> 0]
\* a status request: cached = the record Redis returned, row = the row Prisma
\* returned, body = what res.json was given ("cache", "db" or "none")
IdleStatus == [pc |-> "idle", caller |-> "nouser", job |-> 1, result |-> 0,
               body |-> "none", cached |-> NoJob, row |-> NoRow]
\* a connection: state is "none" (not made), "open", "closing" (closed, the
\* 'close' event not yet handled) or "closed"; got = the messages sent to it
NoSocket == [state |-> "none", token |-> "", sub |-> "null", code |-> 0, got |-> {}]
\* ghost field due: the pairs <<s, i>> such that socket s was registered for
\* the user of published[i] and open when that message arrived
WsDown == [subs |-> 0, arrived |-> 0, due |-> {}]
\* no request of the read-side handlers has been made and the WebSocket process
\* has just been started
\* a request in the middleware; ghost field okDuring: at some moment between
\* its arrival and its outcome the token was active at Keycloak and its user
\* not soft-deleted; roles = what keycloakMiddlewareWithRoles did after the
\* middleware returned: "none", "pass" or "403"
IdleAuth == [pc |-> "idle", token |-> "none", result |-> 0, blocked |-> FALSE,
             okDuring |-> FALSE, roles |-> "none"]
IdleDelete == [pc |-> "idle", result |-> "none"]
\* the process after module load: the Redis client is connecting and startServer
\* awaits connectDatabase. client is the state of redisClient; on = onReady and
\* onError are registered; timer = the connect timeout; done = the flag of
\* connectRedis; outcome = the state of the promise it returned. Ghost fields:
\* calls (resolve and reject invocations), cause (the event that settled),
\* events ('ready' and 'error' events emitted), readyAll (the client was ready
\* when connectRedis was called and has been ready since)
Booting == [pc |-> "db", client |-> "connecting", optional |-> FALSE, on |-> FALSE,
            timer |-> "off", done |-> FALSE, outcome |-> "pending", calls |-> 0,
            cause |-> "none", events |-> 0, readyAll |-> FALSE]
ReadersInit ==
  /\ statusReq = [q \in StatusReqs |-> IdleStatus]
  /\ socket = [s \in Sockets |-> NoSocket]
  /\ clients = [u \in WsSubjects |-> {}]
  /\ ws = WsDown
  /\ mw = [r \in AuthReqs |-> IdleAuth]
  /\ authCache = "none"
  /\ kcSession = TRUE
  /\ deleteMe = IdleDelete
  /\ kcLog = <<>>
  /\ boot = Booting
\* ... and the webhook secrets are all configured
EdgeInit ==
  /\ ReadersInit
  /\ env = [N8N_WEBHOOK_SECRET |-> TRUE, ASAAS_WEBHOOK_TOKEN |-> TRUE,
            STRIPE_WEBHOOK_SECRET |-> TRUE]
  /\ gate = [n8n |-> {}, asaas |-> {}, stripe |-> {}]
\* ghost fields of a confirm call: late (the token had expired when the call was
\* made), marked (the call wrote usedAt), kcCalls (Keycloak operations it invoked),
\* wroteUser (it wrote the User row)
IdleConfirm == [pc |-> "idle", id |-> 1, secret |-> "", password |-> "none",
                rec |-> NoToken, result |-> "none", late |-> FALSE, marked |-> FALSE,
                kcCalls |-> 0, wroteUser |-> FALSE]
IdleStart == [pc |-> "idle", user |-> "nouser", found |-> FALSE, credits |-> 0,
              active |-> FALSE, result |-> 0, created |-> FALSE, queued |-> FALSE,
              cached |-> FALSE, triggered |-> FALSE, deducted |-> 0]

\* =================================================== POST /api/transform/start

\* part_000:77
HasActiveSubscription(status) == status = "active"

\* mutation of HasCredits: the balance test off by one
HasCreditsOrZero(c) == c >= 0
\* part_000:78
HasCredits(c) == c > 0

\* part_000:57-69: no file -> 400; otherwise the user lookup is issued.
StartBegin(r, u, hasFile) ==
  /\ start[r].pc = "idle"
  /\ start' = [start EXCEPT ![r] =
       IF hasFile THEN [@ EXCEPT !.pc = "findUser", !.user = u]
                  ELSE [@ EXCEPT !.pc = "done", !.user = u, !.result = 400]]
  /\ UNCHANGED <<credits, subscription, transformation, cache, queue, n8n, grants, StartFrame>>

\* part_000:66-102: findUnique resolves; 404, 402, or transformation.create is issued.
StartFindUser(r) ==
  LET u == start[r].user IN
  /\ start[r].pc = "findUser"
  /\ start' = [start EXCEPT ![r] =
       IF u \notin Users
         THEN [@ EXCEPT !.pc = "done", !.result = 404]
       ELSE IF ~HasActiveSubscription(subscription[u]) /\ ~HasCredits(credits[u])
         THEN [@ EXCEPT !.pc = "done", !.result = 402, !.found = TRUE,
                        !.credits = credits[u],
                        !.active = HasActiveSubscription(subscription[u])]
       ELSE [@ EXCEPT !.pc = "create", !.found = TRUE, !.credits = credits[u],
                      !.active = HasActiveSubscription(subscription[u])]]
  /\ UNCHANGED <<credits, subscription, transformation, cache, queue, n8n, grants, StartFrame>>

\* part_000:94-102: the Transformation row is inserted, status pending.
StartCreate(r) ==
  /\ start[r].pc = "create"
  /\ transformation' = [transformation EXCEPT ![r] =
       [status |-> "pending", userId |-> start[r].user, style |-> "cartoon",
        outputImageUrl |-> "undef", errorMessage |-> "undef"]]
  /\ start' = [start EXCEPT ![r] = [@ EXCEPT !.pc = "lpush", !.created = TRUE]]
  /\ UNCHANGED <<credits, subscription, cache, queue, n8n, grants, StartFrame>>

\* redis.service.ts:173: lpush on transformation:queue.
StartLpush(r) ==
  /\ start[r].pc = "lpush"
  /\ queue' = <<r>> \o queue
  /\ start' = [start EXCEPT ![r] = [@ EXCEPT !.pc = "setCache", !.queued = TRUE]]
  /\ UNCHANGED <<credits, subscription, transformation, cache, n8n, grants, StartFrame>>

\* redis.service.ts:174, part_000:113-126: the pending record is cached; the
\* workflow trigger is started and NOT awaited; the decrement is issued when the
\* user is not on a subscription.
StartSetCache(r) ==
  /\ start[r].pc = "setCache"
  /\ cache' = [cache EXCEPT ![r] =
       [status |-> "pending", id |-> r, userId |-> start[r].user, imageUrl |-> "img",
        style |-> "cartoon", outputUrl |-> "undef", error |-> "undef"]]
  /\ n8n' = [n8n EXCEPT ![r] = "inflight"]
  /\ start' = [start EXCEPT ![r] =
       IF ~start[r].active /\ HasCredits(start[r].credits)
         THEN [@ EXCEPT !.pc = "deduct", !.cached = TRUE, !.triggered = TRUE]
         ELSE [@ EXCEPT !.pc = "done", !.result = 202, !.cached = TRUE,
                        !.triggered = TRUE]]
  /\ UNCHANGED <<credits, subscription, transformation, queue, grants, StartFrame>>

\* part_000:122-133: credits: { decrement: 1 }, then 202.
StartDeduct(r) ==
  /\ start[r].pc = "deduct"
  /\ credits' = [credits EXCEPT ![start[r].user] = @ - 1]
  /\ start' = [start EXCEPT ![r] = [@ EXCEPT !.pc = "done", !.result = 202,
                                            !.deducted = @ + 1]]
  /\ UNCHANGED <<subscription, transformation, cache, queue, n8n, grants, StartFrame>>

\* part_000:134-141: an awaited Prisma or Redis call rejects -> 500.
StartFail(r) ==
  /\ start[r].pc \in {"findUser", "create", "lpush", "setCache", "deduct"}
  /\ start' = [start EXCEPT ![r] = [@ EXCEPT !.pc = "done", !.result = 500]]
  /\ UNCHANGED <<credits, subscription, transformation, cache, queue, n8n, grants, StartFrame>>

\* part_003:128-167: the un-awaited trigger settles; nobody observes the outcome.
TriggerSettles(j, ok) ==
  /\ n8n[j] = "inflight"
  /\ n8n' = [n8n EXCEPT ![j] = IF ok THEN "ok" ELSE "failed"]
  /\ UNCHANGED <<credits, subscription, transformation, cache, queue, start, grants, StartFrame>>

\* user.routes.ts:766-792: POST /api/admin/users/:userId/credits.
AdminGrant(u, amount) ==
  /\ grants.n < MaxGrants
  /\ IF amount <= 0
       THEN /\ grants' = [n |-> grants.n + 1, result |-> 400]
            /\ UNCHANGED credits
       ELSE /\ grants' = [n |-> grants.n + 1, result |-> 200]
            /\ credits' = [credits EXCEPT ![u] = @ + amount]
  /\ UNCHANGED <<subscription, transformation, cache, queue, n8n, start, StartFrame>>

StartInit ==
  /\ credits \in [Users -> 0..MaxInitCredits]
  /\ subscription \in [Users -> {"none", "active"}]
  /\ transformation = [j \in JobIds |-> NoRow]
  /\ cache = [j \in JobIds |-> NoJob]
  /\ queue = <<>>
  /\ n8n = [j \in JobIds |-> "none"]
  /\ start = [r \in StartReqs |-> IdleStart]
  /\ grants = [n |-> 0, result |-> 0]
  /\ published = <<>>
  /\ hook = [c \in HookCalls |-> IdleHook]
  /\ order = [o \in OrderIds |-> NoOrder]
  /\ payHook = [c \in PayHooks |-> IdlePayHook]
  /\ subReq = [r \in SubReqs |-> IdleSubReq]
  /\ providerSubs = [u \in Users |-> 0]
  /\ subHooks = [n |-> 0, result |-> 0]
  /\ now = 0
  /\ deletedAt = [u \in Users |-> FALSE]
  /\ kc = [u \in Users |-> [enabled |-> TRUE, password |-> "p0", resets |-> 0]]
  /\ resetToken = [t \in TokenIds |-> NoToken]
  /\ reactToken = [t \in TokenIds |-> NoToken]
  /\ resetReq = [t \in TokenIds |-> IdleReq]
  /\ reactReq = [t \in TokenIds |-> IdleReq]
  /\ resetCall = [c \in Confirms |-> IdleConfirm]
  /\ reactCall = [c \in Confirms |-> IdleConfirm]
  /\ EdgeInit

StartNext ==
  \/ \E r \in StartReqs, u \in Callers, f \in BOOLEAN : StartBegin(r, u, f)
  \/ \E r \in StartReqs : StartFindUser(r)
  \/ \E r \in StartReqs : StartCreate(r)
  \/ \E r \in StartReqs : StartLpush(r)
  \/ \E r \in StartReqs : StartSetCache(r)
  \/ \E r \in StartReqs : StartDeduct(r)
  \/ \E r \in StartReqs : StartFail(r)
  \/ \E j \in JobIds, ok \in BOOLEAN : TriggerSettles(j, ok)
  \/ \E u \in Users, a \in GrantAmounts : AdminGrant(u, a)

SpecStart == StartInit /\ [][StartNext]_vars

\* ============================ POST /api/webhooks/n8n/transformation-complete

\* user.routes.ts:252, 263
JobStatusOf(s) == IF s = "success" THEN "completed" ELSE "failed"

\* mutation of MergeJob: the cached record is replaced instead of merged
ReplaceJob(existing, status, result) ==
  [NoJob EXCEPT !.status = status, !.outputUrl = result.outputUrl,
                !.error = result.error]
\* mutation of MergeJob: a result field that is undefined leaves the cached one
MergeDefinedJob(existing, status, result) ==
  [existing EXCEPT !.status = status,
                   !.outputUrl = IF result.outputUrl = "undef" THEN @ ELSE result.outputUrl,
                   !.error = IF result.error = "undef" THEN @ ELSE result.error]
\* redis.service.ts:184: { ...existing, status, ...result } through JSON.stringify,
\* which leaves out the keys whose value is undefined.
MergeJob(existing, status, result) ==
  [existing EXCEPT !.status = status, !.outputUrl = result.outputUrl,
                   !.error = result.error]

\* redis.service.ts:187-192: the event of channel transformation:complete.
JobEvent(jobId, existing, status, result) ==
  [channel |-> "transformation:complete", jobId |-> jobId, userId |-> existing.userId,
   status |-> status, outputUrl |-> result.outputUrl, error |-> result.error]

\* user.routes.ts:235-258: the body is read and transformation.update is issued.
HookBegin(c, j, body) ==
  /\ hook[c].pc = "idle"
  /\ hook' = [hook EXCEPT ![c] = [@ EXCEPT !.pc = "dbUpdate", !.job = j, !.body = body]]
  /\ UNCHANGED <<transformation, cache, published, JobFrame>>

\* user.routes.ts:249-265: the row is updated (Prisma skips undefined fields, and
\* rejects when there is no such row); updateTransformationStatus starts.
HookDbUpdate(c) ==
  LET j == hook[c].job
      b == hook[c].body IN
  /\ hook[c].pc = "dbUpdate"
  /\ IF transformation[j].status = "absent"
       THEN /\ hook' = [hook EXCEPT ![c] = [@ EXCEPT !.pc = "done", !.result = 500]]
            /\ UNCHANGED transformation
       ELSE /\ transformation' = [transformation EXCEPT ![j] =
                 [@ EXCEPT !.status = JobStatusOf(b.status),
                           !.outputImageUrl = IF b.outputUrl = "undef" THEN @ ELSE b.outputUrl,
                           !.errorMessage = IF b.error = "undef" THEN @ ELSE b.error]]
            /\ hook' = [hook EXCEPT ![c] = [@ EXCEPT !.pc = "getCache"]]
  /\ UNCHANGED <<cache, published, JobFrame>>

\* redis.service.ts:182-183, user.routes.ts:267: getCache resolves; with no cached
\* record the call returns at once and the webhook answers 200.
HookGetCache(c) ==
  /\ hook[c].pc = "getCache"
  /\ hook' = [hook EXCEPT ![c] =
       IF cache[hook[c].job].status = "absent"
         THEN [@ EXCEPT !.pc = "done", !.result = 200]
         ELSE [@ EXCEPT !.pc = "setCache", !.existing = cache[hook[c].job]]]
  /\ UNCHANGED <<transformation, cache, published, JobFrame>>

\* redis.service.ts:184: setCache of the merged record.
HookSetCache(c) ==
  /\ hook[c].pc = "setCache"
  /\ cache' = [cache EXCEPT ![hook[c].job] =
       MergeJob(hook[c].existing, JobStatusOf(hook[c].body.status), hook[c].body)]
  /\ hook' = [hook EXCEPT ![c] = [@ EXCEPT !.pc = "publish"]]
  /\ UNCHANGED <<transformation, published, JobFrame>>

\* redis.service.ts:187-192, user.routes.ts:267: publishEvent, then 200.
HookPublish(c) ==
  /\ hook[c].pc = "publish"
  /\ published' = Append(published,
       JobEvent(hook[c].job, hook[c].existing, JobStatusOf(hook[c].body.status),
                hook[c].body))
  /\ hook' = [hook EXCEPT ![c] = [@ EXCEPT !.pc = "done", !.result = 200,
                                          !.nPub = @ + 1]]
  /\ UNCHANGED <<transformation, cache, JobFrame>>

\* user.routes.ts:268-271: an awaited Prisma or Redis call rejects -> 500.
HookFail(c) ==
  /\ hook[c].pc \in {"dbUpdate", "getCache", "setCache", "publish"}
  /\ hook' = [hook EXCEPT ![c] = [@ EXCEPT !.pc = "done", !.result = 500]]
  /\ UNCHANGED <<transformation, cache, published, JobFrame>>

\* redis.service.ts:174, 184: the key was written with setex 3600 and expires.
CacheExpire(j) ==
  /\ cache[j].status # "absent"
  /\ cache' = [cache EXCEPT ![j] = NoJob]
  /\ UNCHANGED <<transformation, published, hook, JobFrame>>

PendingRow(u) == [status |-> "pending", userId |-> u, style |-> "cartoon",
                  outputImageUrl |-> "undef", errorMessage |-> "undef"]
PendingJob(j, u) == [status |-> "pending", id |-> j, userId |-> u, imageUrl |-> "img",
                     style |-> "cartoon", outputUrl |-> "undef", error |-> "undef"]

\* The jobs are as POST /start leaves them: no row, or a pending row whose pending
\* record is cached.
JobInit ==
  /\ credits = [u \in Users |-> 0]
  /\ subscription = [u \in Users |-> "none"]
  /\ \E n \in {1, 2} : \E started \in {1..n} :
       /\ transformation = [j \in JobIds |->
            IF j \in started THEN PendingRow("u1") ELSE NoRow]
       /\ cache = [j \in JobIds |->
            IF j \in started THEN PendingJob(j, "u1") ELSE NoJob]
       /\ n8n = [j \in JobIds |-> IF j \in started THEN "ok" ELSE "none"]
  /\ queue = <<>>
  /\ start = [r \in StartReqs |-> IdleStart]
  /\ grants = [n |-> 0, result |-> 0]
  /\ published = <<>>
  /\ hook = [c \in HookCalls |-> IdleHook]
  /\ order = [o \in OrderIds |-> NoOrder]
  /\ payHook = [c \in PayHooks |-> IdlePayHook]
  /\ subReq = [r \in SubReqs |-> IdleSubReq]
  /\ providerSubs = [u \in Users |-> 0]
  /\ subHooks = [n |-> 0, result |-> 0]
  /\ now = 0
  /\ deletedAt = [u \in Users |-> FALSE]
  /\ kc = [u \in Users |-> [enabled |-> TRUE, password |-> "p0", resets |-> 0]]
  /\ resetToken = [t \in TokenIds |-> NoToken]
  /\ reactToken = [t \in TokenIds |-> NoToken]
  /\ resetReq = [t \in TokenIds |-> IdleReq]
  /\ reactReq = [t \in TokenIds |-> IdleReq]
  /\ resetCall = [c \in Confirms |-> IdleConfirm]
  /\ reactCall = [c \in Confirms |-> IdleConfirm]
  /\ EdgeInit

HookSteps(calls) ==
  \/ \E c \in calls, j \in JobIds, b \in Payloads : HookBegin(c, j, b)
  \/ \E c \in calls : HookDbUpdate(c)
  \/ \E c \in calls : HookGetCache(c)
  \/ \E c \in calls : HookSetCache(c)
  \/ \E c \in calls : HookPublish(c)
  \/ \E c \in calls : HookFail(c)
  \/ \E j \in JobIds : CacheExpire(j)

JobNext == HookSteps(HookCalls)

SpecJob == JobInit /\ [][JobNext]_vars

\* ======================================== GET /api/transform/status/:jobId

\* mutation of FindFirst: the lookup is not filtered by the caller
FindFirstAny(j, u) == transformation[j]
\* part_000:162-176: findFirst where { id: jobId, user: { keycloakId: userId } };
\* NoRow = null
FindFirst(j, u) ==
  IF transformation[j].status # "absent" /\ transformation[j].userId = u
    THEN transformation[j] ELSE NoRow

\* part_000:148-154: getTransformationStatus is called.
StatusBegin(q, u, j) ==
  /\ statusReq[q].pc = "idle"
  /\ statusReq' = [statusReq EXCEPT ![q] =
       [@ EXCEPT !.pc = "getCache", !.caller = u, !.job = j]]
  /\ UNCHANGED StatusFrame

\* redis.service.ts:196-202, part_000:154-176: getCache resolves; a cached record
\* is the response, else findFirst is issued.
StatusGetCache(q) ==
  LET rec == cache[statusReq[q].job] IN
  /\ statusReq[q].pc = "getCache"
  /\ statusReq' = [statusReq EXCEPT ![q] =
       IF rec.status # "absent"
         THEN [@ EXCEPT !.pc = "done", !.result = 200, !.body = "cache", !.cached = rec]
         ELSE [@ EXCEPT !.pc = "findFirst"]]
  /\ UNCHANGED StatusFrame

\* part_000:162-191: findFirst resolves; no row -> 404, else the row's fields are
\* the response.
StatusFindFirst(q) ==
  LET row == FindFirst(statusReq[q].job, statusReq[q].caller) IN
  /\ statusReq[q].pc = "findFirst"
  /\ statusReq' = [statusReq EXCEPT ![q] =
       IF row.status = "absent"
         THEN [@ EXCEPT !.pc = "done", !.result = 404]
         ELSE [@ EXCEPT !.pc = "done", !.result = 200, !.body = "db", !.row = row]]
  /\ UNCHANGED StatusFrame

\* part_000:192-195: the Redis or the Prisma call rejects -> 500.
StatusFail(q) ==
  /\ statusReq[q].pc \in {"getCache", "findFirst"}
  /\ statusReq' = [statusReq EXCEPT ![q] = [@ EXCEPT !.pc = "done", !.result = 500]]
  /\ UNCHANGED StatusFrame

\* status requests, beside one completion webhook and the expiry of cache keys
StatusNext ==
  \/ \E q \in StatusReqs, u \in Callers, j \in JobIds : StatusBegin(q, u, j)
  \/ \E q \in StatusReqs : StatusGetCache(q)
  \/ \E q \in StatusReqs : StatusFindFirst(q)
  \/ \E q \in StatusReqs : StatusFail(q)
  \/ HookSteps({1})

SpecStatus == JobInit /\ [][StatusNext]_vars

\* ============================== keycloakMiddleware and DELETE /api/users/me

\* keycloak.ts:49-70: Keycloak reports the token active (and gives its sub)
Introspect(token) == token = "t1" /\ kcSession /\ kc["u1"].enabled
\* the token is active at Keycloak and its user is not soft-deleted
OkNow(token) == Introspect(token) /\ ~deletedAt["u1"]
\* the value of the key auth:v1:<token>
Cached(token) == IF token = "t1" THEN authCache ELSE "none"

\* keycloak.ts:75-85: no bearer token -> 401; else the cache key is read.
MwBegin(r, token) ==
  /\ mw[r].pc = "idle"
  /\ mw' = [mw EXCEPT ![r] =
       IF token = "none"
         THEN [@ EXCEPT !.pc = "done", !.token = token, !.result = 401]
         ELSE [@ EXCEPT !.pc = "getCache", !.token = token,
                        !.okDuring = OkNow(token)]]
  /\ UNCHANGED <<authCache, kcSession, deleteMe, kcLog, deletedAt, kc, AuthFrame>>

\* keycloak.ts:85-99: a cached entry decides: blocked -> 403, else next();
\* without one the token is introspected.
MwGetCache(r) ==
  LET c == Cached(mw[r].token) IN
  /\ mw[r].pc = "getCache"
  /\ mw' = [mw EXCEPT ![r] =
       IF c = "blocked" THEN [@ EXCEPT !.pc = "done", !.result = 403,
                                       !.okDuring = @ \/ OkNow(mw[r].token)]
       ELSE IF c = "pass" THEN [@ EXCEPT !.pc = "handler",
                                         !.okDuring = @ \/ OkNow(mw[r].token)]
       ELSE [@ EXCEPT !.pc = "introspect", !.okDuring = @ \/ OkNow(mw[r].token)]]
  /\ UNCHANGED <<authCache, kcSession, deleteMe, kcLog, deletedAt, kc, AuthFrame>>

\* keycloak.ts:99-122: inactive -> 401; else the user row is looked up.
MwIntrospect(r) ==
  /\ mw[r].pc = "introspect"
  /\ mw' = [mw EXCEPT ![r] =
       IF Introspect(mw[r].token)
         THEN [@ EXCEPT !.pc = "findUnique", !.okDuring = @ \/ OkNow(mw[r].token)]
         ELSE [@ EXCEPT !.pc = "done", !.result = 401]]
  /\ UNCHANGED <<authCache, kcSession, deleteMe, kcLog, deletedAt, kc, AuthFrame>>

\* keycloak.ts:119-128: blocked = Boolean(dbUser?.deletedAt); the cache write
\* is issued.
MwFindUnique(r) ==
  /\ mw[r].pc = "findUnique"
  /\ mw' = [mw EXCEPT ![r] =
       [@ EXCEPT !.pc = "setCache", !.blocked = deletedAt["u1"],
                 !.okDuring = @ \/ OkNow(mw[r].token)]]
  /\ UNCHANGED <<authCache, kcSession, deleteMe, kcLog, deletedAt, kc, AuthFrame>>

\* keycloak.ts:128-136: the entry is cached for 60 s; blocked -> 403, else next().
MwSetCache(r) ==
  /\ mw[r].pc = "setCache"
  /\ authCache' = IF mw[r].blocked THEN "blocked" ELSE "pass"
  /\ mw' = [mw EXCEPT ![r] =
       IF mw[r].blocked
         THEN [@ EXCEPT !.pc = "done", !.result = 403,
                        !.okDuring = @ \/ OkNow(mw[r].token)]
         ELSE [@ EXCEPT !.pc = "handler", !.okDuring = @ \/ OkNow(mw[r].token)]]
  /\ UNCHANGED <<kcSession, deleteMe, kcLog, deletedAt, kc, AuthFrame>>

\* keycloak.ts:137-140: Redis, Keycloak or Prisma rejects -> 500.
MwFail(r) ==
  /\ mw[r].pc \in {"getCache", "introspect", "findUnique", "setCache"}
  /\ mw' = [mw EXCEPT ![r] = [@ EXCEPT !.pc = "done", !.result = 500]]
  /\ UNCHANGED <<authCache, kcSession, deleteMe, kcLog, deletedAt, kc, AuthFrame>>

\* keycloak.ts:185-193: keycloakMiddleware, which has called next(), returns to
\* keycloakMiddlewareWithRoles; req.user is set and its roles are compared with
\* the required ones: none held -> 403 'Insufficient permissions'.
WithRolesResumes(r, holds) ==
  /\ mw[r].pc = "handler"
  /\ mw[r].roles = "none"
  /\ mw' = [mw EXCEPT ![r] = [@ EXCEPT !.roles = IF holds THEN "pass" ELSE "403"]]
  /\ UNCHANGED <<authCache, kcSession, deleteMe, kcLog, deletedAt, kc, AuthFrame>>

\* keycloak.ts:127-128: the key expires after 60 s.
AuthCacheExpire ==
  /\ authCache # "none"
  /\ authCache' = "none"
  /\ UNCHANGED <<mw, kcSession, deleteMe, kcLog, deletedAt, kc, AuthFrame>>

\* user.routes.ts:195-202: a request that passed the middleware is DELETE /me;
\* the user row is looked up.
DeleteBegin(r) ==
  /\ mw[r].pc = "handler"
  /\ deleteMe.pc = "idle"
  /\ mw' = [mw EXCEPT ![r] = [@ EXCEPT !.pc = "inDelete"]]
  /\ deleteMe' = [deleteMe EXCEPT !.pc = "findUnique"]
  /\ UNCHANGED <<authCache, kcSession, kcLog, deletedAt, kc, AuthFrame>>

\* user.routes.ts:199-210: a row that is not yet soft-deleted gets the update.
DeleteFindUnique ==
  /\ deleteMe.pc = "findUnique"
  /\ deleteMe' = [deleteMe EXCEPT !.pc = IF deletedAt["u1"] THEN "logout" ELSE "update"]
  /\ UNCHANGED <<mw, authCache, kcSession, kcLog, deletedAt, kc, AuthFrame>>

\* user.routes.ts:205-213: deletedAt is set; keycloakDisableAndLogoutUser starts.
DeleteUpdate ==
  /\ deleteMe.pc = "update"
  /\ deletedAt' = [deletedAt EXCEPT !["u1"] = TRUE]
  /\ deleteMe' = [deleteMe EXCEPT !.pc = "logout"]
  /\ UNCHANGED <<mw, authCache, kcSession, kcLog, kc, AuthFrame>>

\* mutation of AfterLogout: a failed logout ends the function
AfterLogoutStrict(ok) ==
  IF ok THEN [pc |-> "disable", result |-> "none"]
        ELSE [pc |-> "done", result |-> "KEYCLOAK_LOGOUT_FAILED"]
\* part_004:91-96: try { await keycloakLogoutUser } catch { }
AfterLogout(ok) == [pc |-> "disable", result |-> "none"]

\* part_004:57-69, 91-96: the logout call succeeds (the sessions are revoked)
\* or rejects.
DeleteLogout(ok) ==
  /\ deleteMe.pc = "logout"
  /\ kcLog' = Append(kcLog, <<"logout", ok>>)
  /\ kcSession' = IF ok THEN FALSE ELSE kcSession
  /\ deleteMe' = AfterLogout(ok)
  /\ UNCHANGED <<mw, authCache, deletedAt, kc, AuthFrame>>

\* part_004:71-86, 98-103, user.routes.ts:213-215: the disable call succeeds
\* and the route answers 200, or rejects and KEYCLOAK_DISABLE_FAILED is thrown.
DeleteDisable(ok) ==
  /\ deleteMe.pc = "disable"
  /\ kcLog' = Append(kcLog, <<"disable", ok>>)
  /\ kc' = IF ok THEN [kc EXCEPT !["u1"] = [@ EXCEPT !.enabled = FALSE]] ELSE kc
  /\ deleteMe' = [pc |-> "done",
                  result |-> IF ok THEN "200" ELSE "KEYCLOAK_DISABLE_FAILED"]
  /\ UNCHANGED <<mw, authCache, kcSession, deletedAt, AuthFrame>>

\* user.routes.ts:199-210: a Prisma call rejects; the handler has no catch.
DeleteFail ==
  /\ deleteMe.pc \in {"findUnique", "update"}
  /\ deleteMe' = [pc |-> "done", result |-> "DB_ERROR"]
  /\ UNCHANGED <<mw, authCache, kcSession, kcLog, deletedAt, kc, AuthFrame>>

AuthNext ==
  \/ \E r \in AuthReqs, t \in BearerTokens : MwBegin(r, t)
  \/ \E r \in AuthReqs : MwGetCache(r)
  \/ \E r \in AuthReqs : MwIntrospect(r)
  \/ \E r \in AuthReqs : MwFindUnique(r)
  \/ \E r \in AuthReqs : MwSetCache(r)
  \/ \E r \in AuthReqs : MwFail(r)
  \/ \E r \in AuthReqs, holds \in BOOLEAN : WithRolesResumes(r, holds)
  \/ AuthCacheExpire
  \/ \E r \in AuthReqs : DeleteBegin(r)
  \/ DeleteFindUnique
  \/ DeleteUpdate
  \/ \E ok \in BOOLEAN : DeleteLogout(ok)
  \/ \E ok \in BOOLEAN : DeleteDisable(ok)
  \/ DeleteFail

\* ======================================== verification of webhook requests

\* user.routes.ts:385-396: true, false, or an exception.  Without a configured
\* secret every request passes; crypto.timingSafeEqual throws a RangeError
\* when the two buffers differ in length.
VerifyN8NSignature(signature) ==
  IF ~env.N8N_WEBHOOK_SECRET THEN "true"
  ELSE IF signature \in {"none", "badlen"} THEN "throws"
  ELSE IF signature = "good" THEN "true" ELSE "false"

\* user.routes.ts:340-345: token !== process.env.ASAAS_WEBHOOK_TOKEN; with the
\* variable unset both sides are undefined when the header is absent.
AsaasTokenMatches(token) ==
  IF env.ASAAS_WEBHOOK_TOKEN THEN token = "good" ELSE token = "none"

\* user.routes.ts:282-292: stripe.webhooks.constructEvent returns the event, or
\* throws (also when there is no secret to compute the signature with).
ConstructEventReturns(sig) == env.STRIPE_WEBHOOK_SECRET /\ sig = "good"

\* user.routes.ts:235-258, 268-271: the completion webhook behind its check:
\* 401, 500 when the check throws, else transformation.update is issued.
N8NRequest(c, j, body, signature) ==
  LET v == VerifyN8NSignature(signature) IN
  /\ hook[c].pc = "idle"
  /\ gate' = [gate EXCEPT !.n8n = @ \cup {signature}]
  /\ hook' = [hook EXCEPT ![c] =
       IF v = "true" THEN [@ EXCEPT !.pc = "dbUpdate", !.job = j, !.body = body]
       ELSE IF v = "false" THEN [@ EXCEPT !.pc = "done", !.result = 401]
       ELSE [@ EXCEPT !.pc = "done", !.result = 500]]
  /\ UNCHANGED <<payHook, SigFrame>>

\* user.routes.ts:277-301, 336-358: a payment webhook behind its check: Stripe
\* answers 400 and Asaas 401, else the event's handler starts.
PayRequest(c, event, orderId, sig) ==
  LET stripe == event = "checkout.session.completed"
      passes == IF stripe THEN ConstructEventReturns(sig) ELSE AsaasTokenMatches(sig) IN
  /\ payHook[c].pc = "idle"
  /\ gate' = IF stripe THEN [gate EXCEPT !.stripe = @ \cup {sig}]
                       ELSE [gate EXCEPT !.asaas = @ \cup {sig}]
  /\ payHook' = [payHook EXCEPT ![c] =
       IF ~passes
         THEN [@ EXCEPT !.pc = "done", !.event = event,
                        !.result = IF stripe THEN 400 ELSE 401]
       ELSE IF orderId = 0
         THEN [@ EXCEPT !.pc = "done", !.event = event, !.result = 200]
         ELSE [@ EXCEPT !.pc = "orderUpdate", !.event = event, !.orderId = orderId]]
  /\ UNCHANGED <<hook, SigFrame>>

\* ====================================================== the WebSocket process

\* mutation of AuthenticateToken: a token that does not verify is taken as u1's
AuthenticateAny(token) ==
  IF token = "jwt:u2" THEN "u2" ELSE "u1"
\* websocket-server.ts:31-45: jwt.verify; the subject, or null
AuthenticateToken(token) ==
  IF token = "jwt:u1" THEN "u1" ELSE IF token = "jwt:u2" THEN "u2" ELSE "null"

\* websocket-server.ts:78-83
Welcome(userId) == [type |-> "connected", userId |-> userId, payload |-> <<>>]
\* websocket-server.ts:171-174, 184-187, 197-200: { type: <channel>, payload: data }
Wrapped(event) == [type |-> event.channel, userId |-> event.userId, payload |-> <<event>>]

\* websocket-server.ts:137-147: the sockets sendToUser writes to
SendToUser(userId) ==
  IF userId \in DOMAIN clients
    THEN {s \in clients[userId] : socket[s].state = "open"}
    ELSE {}

\* websocket-server.ts:165-204, redis.service.ts:1, 19: ioredis takes the function
\* given to subscribe() as the command's callback and calls it once with
\* (null, count); JSON.parse(null) is null and data.userId throws, which the
\* handler catches.  No listener is attached to the subscriber's 'message' event.
WsSubscribe ==
  /\ ws.subs < Len(Channels)
  /\ ws' = [ws EXCEPT !.subs = @ + 1]
  /\ UNCHANGED <<socket, clients, WsFrame>>

\* websocket-server.ts:50-83, 212-218: a connection is made once the server
\* listens.  No token: close 4001; a token that does not verify: close 4002;
\* else the socket is added to the user's set and is sent the welcome message.
WsConnect(s, token) ==
  LET sub == AuthenticateToken(token) IN
  /\ ws.subs = Len(Channels)
  /\ socket[s].state = "none"
  /\ IF token = ""
       THEN /\ socket' = [socket EXCEPT ![s] =
                 [@ EXCEPT !.state = "closed", !.token = token, !.code = 4001]]
            /\ UNCHANGED clients
     ELSE IF sub = "null"
       THEN /\ socket' = [socket EXCEPT ![s] =
                 [@ EXCEPT !.state = "closed", !.token = token, !.code = 4002]]
            /\ UNCHANGED clients
     ELSE /\ socket' = [socket EXCEPT ![s] =
               [@ EXCEPT !.state = "open", !.token = token, !.sub = sub,
                         !.got = {Welcome(sub)}]]
          /\ clients' = [clients EXCEPT ![sub] = @ \cup {s}]
  /\ UNCHANGED <<ws, WsFrame>>

\* the peer closes an open connection: its readyState is no longer OPEN
WsPeerClose(s) ==
  /\ socket[s].state = "open"
  /\ socket' = [socket EXCEPT ![s] = [@ EXCEPT !.state = "closing"]]
  /\ UNCHANGED <<clients, ws, WsFrame>>

\* websocket-server.ts:96-102: the 'close' handler removes the socket
WsOnClose(s) ==
  /\ socket[s].state = "closing"
  /\ socket' = [socket EXCEPT ![s] = [@ EXCEPT !.state = "closed"]]
  /\ clients' = [clients EXCEPT ![socket[s].sub] = @ \ {s}]
  /\ UNCHANGED <<ws, WsFrame>>

\* redis.service.ts:117-119, websocket-server.ts:164-207: the next published
\* message reaches the subscriber connection if its channel is subscribed;
\* ioredis emits 'message', which has no listener: nothing is sent.
WsMessage ==
  LET i == ws.arrived + 1 IN
  /\ ws.arrived < Len(published)
  /\ ws' = [ws EXCEPT !.arrived = i,
                      !.due = IF ws.subs = Len(Channels)
                                THEN @ \cup {<<s, i>> : s \in SendToUser(published[i].userId)}
                                ELSE @]
  /\ UNCHANGED <<socket, clients, WsFrame>>

\* the WebSocket process, beside one completion webhook that publishes
RelayNext ==
  \/ WsSubscribe
  \/ \E s \in Sockets, t \in WsTokens : WsConnect(s, t)
  \/ \E s \in Sockets : WsPeerClose(s)
  \/ \E s \in Sockets : WsOnClose(s)
  \/ WsMessage
  \/ HookSteps({1})

SpecRelay == JobInit /\ [][RelayNext]_vars

\* ===================================== payment webhooks (Stripe and Asaas)

\* user.routes.ts:298-301, 350-358: the status the event's handler writes.
OrderStatusOf(event) ==
  IF event \in {"checkout.session.completed", "PAYMENT_CONFIRMED", "PAYMENT_RECEIVED"}
    THEN "completed" ELSE "failed"

\* mutation of CreditsOf: a confirmed order carries no credits
NoCredits(row) == 0
\* user.routes.ts:410, 467: (order.metadata as { credits?: number })?.credits || 0
CreditsOf(row) == row.credits

\* user.routes.ts:399-400, 457-458, 482-483: without an order reference the handler
\* returns and the webhook answers 200; otherwise order.update is issued.
PayBegin(c, event, orderId) ==
  /\ payHook[c].pc = "idle"
  /\ payHook' = [payHook EXCEPT ![c] =
       IF orderId = 0
         THEN [@ EXCEPT !.pc = "done", !.event = event, !.result = 200]
         ELSE [@ EXCEPT !.pc = "orderUpdate", !.event = event, !.orderId = orderId]]
  /\ UNCHANGED <<credits, published, order, OrderFrame>>

\* user.routes.ts:402-414, 460-471, 485-488: order.update sets the status (and
\* rejects when there is no such row); for a confirmed credits order the
\* increment is issued.
PayOrderUpdate(c) ==
  LET o == payHook[c].orderId
      st == OrderStatusOf(payHook[c].event) IN
  /\ payHook[c].pc = "orderUpdate"
  /\ IF order[o].status = "absent"
       THEN /\ payHook' = [payHook EXCEPT ![c] = [@ EXCEPT !.pc = "done", !.result = 500]]
            /\ UNCHANGED order
       ELSE /\ order' = [order EXCEPT ![o] = [@ EXCEPT !.status = st]]
            /\ payHook' = [payHook EXCEPT ![c] =
                 IF st = "completed" /\ order[o].type = "credits"
                   THEN [@ EXCEPT !.pc = "increment", !.credits = CreditsOf(order[o]),
                                  !.userId = order[o].userId]
                   ELSE [@ EXCEPT !.pc = "done", !.result = 200]]
  /\ UNCHANGED <<credits, published, OrderFrame>>

\* user.routes.ts:411-414, 468-471: credits: { increment: credits }.
PayIncrement(c) ==
  /\ payHook[c].pc = "increment"
  /\ credits' = [credits EXCEPT ![payHook[c].userId] = @ + payHook[c].credits]
  /\ payHook' = [payHook EXCEPT ![c] = [@ EXCEPT !.pc = "notify"]]
  /\ UNCHANGED <<published, order, OrderFrame>>

\* user.routes.ts:417-421, 473-477: the credits_added notification, then 200.
PayNotify(c) ==
  /\ payHook[c].pc = "notify"
  /\ published' = Append(published,
       [channel |-> "notification", userId |-> payHook[c].userId,
        type |-> "credits_added", credits |-> payHook[c].credits])
  /\ payHook' = [payHook EXCEPT ![c] = [@ EXCEPT !.pc = "done", !.result = 200]]
  /\ UNCHANGED <<credits, order, OrderFrame>>

\* user.routes.ts:327-330, 375-378: an awaited Prisma or Redis call rejects -> 500.
PayFail(c) ==
  /\ payHook[c].pc \in {"orderUpdate", "increment", "notify"}
  /\ payHook' = [payHook EXCEPT ![c] = [@ EXCEPT !.pc = "done", !.result = 500]]
  /\ UNCHANGED <<credits, published, order, OrderFrame>>

\* part_001:75-84: the orders are as POST /credits/purchase leaves them, pending;
\* order 1 is a credits order, the others are of either type or do not exist.
OrderInit ==
  /\ credits = [u \in Users |-> 0]
  /\ subscription = [u \in Users |-> "none"]
  /\ transformation = [j \in JobIds |-> NoRow]
  /\ cache = [j \in JobIds |-> NoJob]
  /\ queue = <<>>
  /\ n8n = [j \in JobIds |-> "none"]
  /\ start = [r \in StartReqs |-> IdleStart]
  /\ grants = [n |-> 0, result |-> 0]
  /\ published = <<>>
  /\ hook = [c \in HookCalls |-> IdleHook]
  /\ \E k \in PackageCredits, t \in OrderTypes \cup {"none"} :
       order = [o \in OrderIds |->
         IF o = 1
           THEN [status |-> "pending", type |-> "credits", userId |-> "u1", credits |-> k]
         ELSE IF o = 2 /\ t # "none"
           THEN [status |-> "pending", type |-> t, userId |-> "u1",
                 credits |-> IF t = "credits" THEN k ELSE 0]
         ELSE NoOrder]
  /\ payHook = [c \in PayHooks |-> IdlePayHook]
  /\ subReq = [r \in SubReqs |-> IdleSubReq]
  /\ providerSubs = [u \in Users |-> 0]
  /\ subHooks = [n |-> 0, result |-> 0]
  /\ now = 0
  /\ deletedAt = [u \in Users |-> FALSE]
  /\ kc = [u \in Users |-> [enabled |-> TRUE, password |-> "p0", resets |-> 0]]
  /\ resetToken = [t \in TokenIds |-> NoToken]
  /\ reactToken = [t \in TokenIds |-> NoToken]
  /\ resetReq = [t \in TokenIds |-> IdleReq]
  /\ reactReq = [t \in TokenIds |-> IdleReq]
  /\ resetCall = [c \in Confirms |-> IdleConfirm]
  /\ reactCall = [c \in Confirms |-> IdleConfirm]
  /\ EdgeInit

OrderNext ==
  \/ \E c \in PayHooks, e \in PayEvents, o \in OrderIds \cup {0} : PayBegin(c, e, o)
  \/ \E c \in PayHooks : PayOrderUpdate(c)
  \/ \E c \in PayHooks : PayIncrement(c)
  \/ \E c \in PayHooks : PayNotify(c)
  \/ \E c \in PayHooks : PayFail(c)

SpecOrder == OrderInit /\ [][OrderNext]_vars

\* --------------------------------- the webhooks behind their verification

\* A pending job and a pending credits order, under every configuration of the
\* three webhook secrets.
SigInit ==
  /\ credits = [u \in Users |-> 0]
  /\ subscription = [u \in Users |-> "none"]
  /\ transformation = [j \in JobIds |-> IF j = 1 THEN PendingRow("u1") ELSE NoRow]
  /\ cache = [j \in JobIds |-> IF j = 1 THEN PendingJob(j, "u1") ELSE NoJob]
  /\ queue = <<>>
  /\ n8n = [j \in JobIds |-> IF j = 1 THEN "ok" ELSE "none"]
  /\ start = [r \in StartReqs |-> IdleStart]
  /\ grants = [n |-> 0, result |-> 0]
  /\ published = <<>>
  /\ hook = [c \in HookCalls |-> IdleHook]
  /\ \E k \in PackageCredits :
       order = [o \in OrderIds |->
         IF o = 1
           THEN [status |-> "pending", type |-> "credits", userId |-> "u1", credits |-> k]
           ELSE NoOrder]
  /\ payHook = [c \in PayHooks |-> IdlePayHook]
  /\ subReq = [r \in SubReqs |-> IdleSubReq]
  /\ providerSubs = [u \in Users |-> 0]
  /\ subHooks = [n |-> 0, result |-> 0]
  /\ now = 0
  /\ deletedAt = [u \in Users |-> FALSE]
  /\ kc = [u \in Users |-> [enabled |-> TRUE, password |-> "p0", resets |-> 0]]
  /\ resetToken = [t \in TokenIds |-> NoToken]
  /\ reactToken = [t \in TokenIds |-> NoToken]
  /\ resetReq = [t \in TokenIds |-> IdleReq]
  /\ reactReq = [t \in TokenIds |-> IdleReq]
  /\ resetCall = [c \in Confirms |-> IdleConfirm]
  /\ reactCall = [c \in Confirms |-> IdleConfirm]
  /\ ReadersInit
  /\ env \in [{"N8N_WEBHOOK_SECRET", "ASAAS_WEBHOOK_TOKEN", "STRIPE_WEBHOOK_SECRET"}
               -> BOOLEAN]
  /\ gate = [n8n |-> {}, asaas |-> {}, stripe |-> {}]

\* one completion webhook and one payment webhook, each behind its check
SigNext ==
  \/ \E j \in JobIds, b \in Payloads, g \in Signatures : N8NRequest(1, j, b, g)
  \/ HookDbUpdate(1)
  \/ HookGetCache(1)
  \/ HookSetCache(1)
  \/ HookPublish(1)
  \/ HookFail(1)
  \/ \E e \in PayEvents, o \in OrderIds \cup {0}, g \in Signatures : PayRequest(1, e, o, g)
  \/ PayOrderUpdate(1)
  \/ PayIncrement(1)
  \/ PayNotify(1)
  \/ PayFail(1)

SpecSig == SigInit /\ [][SigNext]_vars

\* ======================================== POST /api/payments/subscribe

\* part_001:136-147: the body fails validation -> 400; otherwise the user lookup
\* is issued.
SubBegin(r, u, region, valid) ==
  /\ subReq[r].pc = "idle"
  /\ subReq' = [subReq EXCEPT ![r] =
       IF valid THEN [@ EXCEPT !.pc = "findUser", !.user = u, !.region = region]
                ELSE [@ EXCEPT !.pc = "done", !.user = u, !.result = 400]]
  /\ UNCHANGED <<subscription, providerSubs, subHooks, SubFrame>>

\* part_001:144-190: findUnique resolves; 404, 400 'Already subscribed', or the
\* provider's createSubscription is called.
SubFindUser(r) ==
  LET u == subReq[r].user IN
  /\ subReq[r].pc = "findUser"
  /\ subReq' = [subReq EXCEPT ![r] =
       IF u \notin Users
         THEN [@ EXCEPT !.pc = "done", !.result = 404]
       ELSE IF HasActiveSubscription(subscription[u])
         THEN [@ EXCEPT !.pc = "done", !.result = 400, !.seen = subscription[u]]
       ELSE [@ EXCEPT !.pc = "provider", !.seen = subscription[u]]]
  /\ UNCHANGED <<subscription, providerSubs, subHooks, SubFrame>>

\* asaas.service.ts:102-123, part_003:296-362: the provider creates the
\* subscription; part_001:192-195 answers 200.
SubProvider(r) ==
  LET u == subReq[r].user IN
  /\ subReq[r].pc = "provider"
  /\ providerSubs' = [providerSubs EXCEPT ![u] = @ + 1]
  /\ subReq' = [subReq EXCEPT ![r] =
       [@ EXCEPT !.pc = "done", !.result = 200,
                 !.activeAtCall = HasActiveSubscription(subscription[u])]]
  /\ UNCHANGED <<subscription, subHooks, SubFrame>>

\* part_001:196-203: an awaited Prisma or provider call rejects -> 500.
SubFail(r) ==
  /\ subReq[r].pc \in {"findUser", "provider"}
  /\ subReq' = [subReq EXCEPT ![r] = [@ EXCEPT !.pc = "done", !.result = 500]]
  /\ UNCHANGED <<subscription, providerSubs, subHooks, SubFrame>>

\* user.routes.ts:425-454, 491-509: the status a subscription event writes.
SubStatusOf(event) ==
  IF event \in {"invoice.paid", "customer.subscription.updated:active",
                "SUBSCRIPTION_CREATED", "SUBSCRIPTION_RENEWED"} THEN "active"
  ELSE IF event = "customer.subscription.updated:other" THEN "inactive"
  ELSE "cancelled"

\* user.routes.ts:304-320, 360-368, 425-454, 491-509: a subscription event for the
\* user's Subscription row.  Stripe's handlers use updateMany, which matches no row
\* silently; Asaas's use update, which rejects when there is no such row.
SubWebhook(u, event) ==
  LET asaas == event \in {"SUBSCRIPTION_CREATED", "SUBSCRIPTION_RENEWED",
                          "SUBSCRIPTION_DELETED", "SUBSCRIPTION_INACTIVE"} IN
  /\ subHooks.n < MaxSubHooks
  /\ IF subscription[u] = "none"
       THEN /\ subHooks' = [n |-> subHooks.n + 1, result |-> IF asaas THEN 500 ELSE 200]
            /\ UNCHANGED subscription
       ELSE /\ subHooks' = [n |-> subHooks.n + 1, result |-> 200]
            /\ subscription' = [subscription EXCEPT ![u] = SubStatusOf(event)]
  /\ UNCHANGED <<subReq, providerSubs, SubFrame>>

\* Nothing in the API inserts a Subscription row: a user has none, or one that was
\* inserted outside it, in any status.
SubInit ==
  /\ credits = [u \in Users |-> 0]
  /\ subscription \in [Users -> SubStatuses]
  /\ transformation = [j \in JobIds |-> NoRow]
  /\ cache = [j \in JobIds |-> NoJob]
  /\ queue = <<>>
  /\ n8n = [j \in JobIds |-> "none"]
  /\ start = [r \in StartReqs |-> IdleStart]
  /\ grants = [n |-> 0, result |-> 0]
  /\ published = <<>>
  /\ hook = [c \in HookCalls |-> IdleHook]
  /\ order = [o \in OrderIds |-> NoOrder]
  /\ payHook = [c \in PayHooks |-> IdlePayHook]
  /\ subReq = [r \in SubReqs |-> IdleSubReq]
  /\ providerSubs = [u \in Users |-> 0]
  /\ subHooks = [n |-> 0, result |-> 0]
  /\ now = 0
  /\ deletedAt = [u \in Users |-> FALSE]
  /\ kc = [u \in Users |-> [enabled |-> TRUE, password |-> "p0", resets |-> 0]]
  /\ resetToken = [t \in TokenIds |-> NoToken]
  /\ reactToken = [t \in TokenIds |-> NoToken]
  /\ resetReq = [t \in TokenIds |-> IdleReq]
  /\ reactReq = [t \in TokenIds |-> IdleReq]
  /\ resetCall = [c \in Confirms |-> IdleConfirm]
  /\ reactCall = [c \in Confirms |-> IdleConfirm]
  /\ EdgeInit

SubNext ==
  \/ \E r \in SubReqs, u \in Callers, g \in Regions, v \in BOOLEAN : SubBegin(r, u, g, v)
  \/ \E r \in SubReqs : SubFindUser(r)
  \/ \E r \in SubReqs : SubProvider(r)
  \/ \E r \in SubReqs : SubFail(r)
  \/ \E u \in Users, e \in SubEvents : SubWebhook(u, e)

SpecSub == SubInit /\ [][SubNext]_vars

\* ==================================================== password reset tokens

\* bcrypt.hash / bcrypt.compare (password.reset.service.ts:35, 89)
Hash(secret) == <<"bcrypt", secret>>
BcryptCompare(secret, tokenHash) == Hash(secret) = tokenHash

\* mutation of IsExpired: the expiry test is never true
NeverExpired(expiresAt, t) == FALSE
\* password.reset.service.ts:86, account.reactivation.service.ts:80
IsExpired(expiresAt, t) == expiresAt < t

\* password.reset.service.ts:9-11
NowPlusMinutes(minutes) == now + minutes

\* mutation of RouteReply: the rejection of the service reaches the client
RouteReplyRethrow(threw) == IF threw THEN 500 ELSE 200
\* part_002:449-458, 481-482: the routes catch and drop the rejection of the
\* service and answer 200 with one fixed message.
RouteReply(threw) == 200

\* the request record once the route has answered
Answered(threw) ==
  [pc |-> "done", user |-> "nouser", threw |-> threw, reply |-> RouteReply(threw)]

\* what happens after the user was found: the insert rejects, the insert
\* succeeds and sendMail rejects, or both succeed
CreateOutcomes == {"createFailed", "mailFailed", "sent"}

\* password.reset.service.ts:18-44: the user lookup by e-mail resolves. No user,
\* or a deactivated one: return; else the secret is drawn and hashed and the
\* token row is inserted.
ResetReqFindUser(t, u) ==
  /\ resetReq[t].pc = "idle"
  /\ resetReq' = [resetReq EXCEPT ![t] =
       IF u \notin Users \/ deletedAt[u] THEN Answered(FALSE)
                                          ELSE [@ EXCEPT !.pc = "create", !.user = u]]
  /\ UNCHANGED <<now, deletedAt, kc, resetToken, reactToken, reactReq, resetCall,
                 reactCall, TokenFrame>>

\* password.reset.service.ts:34-60, part_002:449-458: the row is inserted,
\* expiring in RESET_TTL_MINUTES, and the mail with "<id>.<secret>" is sent; or
\* the insert rejects; or sendMail rejects after the insert. The route answers.
ResetReqCreate(t, secret, outcome) ==
  /\ resetReq[t].pc = "create"
  /\ resetToken' = [resetToken EXCEPT ![t] =
       IF outcome = "createFailed" THEN @
       ELSE [exists |-> TRUE, userId |-> resetReq[t].user, tokenHash |-> Hash(secret),
             expiresAt |-> NowPlusMinutes(RESET_TTL_MINUTES), usedAt |-> FALSE]]
  /\ resetReq' = [resetReq EXCEPT ![t] = Answered(outcome # "sent")]
  /\ UNCHANGED <<now, deletedAt, kc, reactToken, reactReq, resetCall, reactCall,
                 TokenFrame>>

\* password.reset.service.ts:66-82: a token without id or secret is refused;
\* otherwise the row lookup is issued.
ResetBegin(c, id, secret, password) ==
  /\ resetCall[c].pc = "idle"
  /\ resetCall' = [resetCall EXCEPT ![c] =
       [@ EXCEPT !.pc = IF secret = "" THEN "done" ELSE "find",
                 !.result = IF secret = "" THEN "INVALID_TOKEN" ELSE "none",
                 !.id = id, !.secret = secret, !.password = password,
                 !.late = resetToken[id].exists /\ now > resetToken[id].expiresAt]]
  /\ UNCHANGED <<now, deletedAt, kc, resetToken, reactToken, resetReq, reactReq,
                 reactCall, TokenFrame>>

\* password.reset.service.ts:73-89: findUnique resolves; the four checks; then
\* bcrypt.compare is started.
ResetFind(c) ==
  LET rec == resetToken[resetCall[c].id]
      bad == \/ ~rec.exists
             \/ rec.usedAt
             \/ IsExpired(rec.expiresAt, now)
             \/ deletedAt[rec.userId] IN
  /\ resetCall[c].pc = "find"
  /\ resetCall' = [resetCall EXCEPT ![c] =
       IF bad THEN [@ EXCEPT !.pc = "done", !.result = "INVALID_TOKEN"]
              ELSE [@ EXCEPT !.pc = "compare", !.rec = rec]]
  /\ UNCHANGED <<now, deletedAt, kc, resetToken, reactToken, resetReq, reactReq,
                 reactCall, TokenFrame>>

\* password.reset.service.ts:89-96: the secret is compared; the update that sets
\* usedAt is issued.
ResetCompare(c) ==
  /\ resetCall[c].pc = "compare"
  /\ resetCall' = [resetCall EXCEPT ![c] =
       IF BcryptCompare(resetCall[c].secret, resetCall[c].rec.tokenHash)
         THEN [@ EXCEPT !.pc = "markUsed"]
         ELSE [@ EXCEPT !.pc = "done", !.result = "INVALID_TOKEN"]]
  /\ UNCHANGED <<now, deletedAt, kc, resetToken, reactToken, resetReq, reactReq,
                 reactCall, TokenFrame>>

\* mutation of ResetMarkUsed: the Keycloak reset is called without the update
ResetSkipMark(c) ==
  /\ resetCall[c].pc = "markUsed"
  /\ resetCall' = [resetCall EXCEPT ![c] = [@ EXCEPT !.pc = "kcReset", !.kcCalls = @ + 1]]
  /\ UNCHANGED <<now, deletedAt, kc, resetToken, reactToken, resetReq, reactReq,
                 reactCall, TokenFrame>>

\* password.reset.service.ts:93-102: usedAt is set, where: { id }; the Keycloak
\* reset is called.
ResetMarkUsed(c) ==
  /\ resetCall[c].pc = "markUsed"
  /\ resetToken' = [resetToken EXCEPT ![resetCall[c].id] = [@ EXCEPT !.usedAt = TRUE]]
  /\ resetCall' = [resetCall EXCEPT ![c] =
       [@ EXCEPT !.pc = "kcReset", !.marked = TRUE, !.kcCalls = @ + 1]]
  /\ UNCHANGED <<now, deletedAt, kc, reactToken, resetReq, reactReq, reactCall,
                 TokenFrame>>

\* part_004:36-55: Keycloak sets the password.
ResetKeycloak(c) ==
  LET u == resetCall[c].rec.userId IN
  /\ resetCall[c].pc = "kcReset"
  /\ kc' = [kc EXCEPT ![u] = [@ EXCEPT !.password = resetCall[c].password,
                                       !.resets = @ + 1]]
  /\ resetCall' = [resetCall EXCEPT ![c] = [@ EXCEPT !.pc = "done", !.result = "ok"]]
  /\ UNCHANGED <<now, deletedAt, resetToken, reactToken, resetReq, reactReq, reactCall,
                 TokenFrame>>

\* password.reset.service.ts:93-102: the update or the Keycloak call rejects.
ResetFail(c) ==
  /\ resetCall[c].pc \in {"markUsed", "kcReset"}
  /\ resetCall' = [resetCall EXCEPT ![c] =
       [@ EXCEPT !.pc = "done",
                 !.result = IF resetCall[c].pc = "kcReset" THEN "KEYCLOAK_ERROR"
                                                         ELSE "DB_ERROR"]]
  /\ UNCHANGED <<now, deletedAt, kc, resetToken, reactToken, resetReq, reactReq,
                 reactCall, TokenFrame>>

\* ============================================== account reactivation tokens

\* account.reactivation.service.ts:18-39: the user lookup resolves. No user, or
\* an active one: return.
ReactReqFindUser(t, u) ==
  /\ reactReq[t].pc = "idle"
  /\ reactReq' = [reactReq EXCEPT ![t] =
       IF u \notin Users \/ ~deletedAt[u] THEN Answered(FALSE)
                                           ELSE [@ EXCEPT !.pc = "create", !.user = u]]
  /\ UNCHANGED <<now, deletedAt, kc, resetToken, reactToken, resetReq, resetCall,
                 reactCall, TokenFrame>>

\* account.reactivation.service.ts:29-53, part_002:478-483
ReactReqCreate(t, secret, outcome) ==
  /\ reactReq[t].pc = "create"
  /\ reactToken' = [reactToken EXCEPT ![t] =
       IF outcome = "createFailed" THEN @
       ELSE [exists |-> TRUE, userId |-> reactReq[t].user, tokenHash |-> Hash(secret),
             expiresAt |-> NowPlusMinutes(TTL_MINUTES), usedAt |-> FALSE]]
  /\ reactReq' = [reactReq EXCEPT ![t] = Answered(outcome # "sent")]
  /\ UNCHANGED <<now, deletedAt, kc, resetToken, resetReq, resetCall, reactCall,
                 TokenFrame>>

\* account.reactivation.service.ts:56-76
ReactBegin(c, id, secret) ==
  /\ reactCall[c].pc = "idle"
  /\ reactCall' = [reactCall EXCEPT ![c] =
       [@ EXCEPT !.pc = IF secret = "" THEN "done" ELSE "find",
                 !.result = IF secret = "" THEN "INVALID_TOKEN" ELSE "none",
                 !.id = id, !.secret = secret,
                 !.late = reactToken[id].exists /\ now > reactToken[id].expiresAt]]
  /\ UNCHANGED <<now, deletedAt, kc, resetToken, reactToken, resetReq, reactReq,
                 resetCall, TokenFrame>>

\* account.reactivation.service.ts:67-85: findUnique resolves; the four checks
\* (the user must be deactivated); then bcrypt.compare is started.
ReactFind(c) ==
  LET rec == reactToken[reactCall[c].id]
      bad == \/ ~rec.exists
             \/ rec.usedAt
             \/ IsExpired(rec.expiresAt, now)
             \/ ~deletedAt[rec.userId] IN
  /\ reactCall[c].pc = "find"
  /\ reactCall' = [reactCall EXCEPT ![c] =
       IF bad THEN [@ EXCEPT !.pc = "done", !.result = "INVALID_TOKEN"]
              ELSE [@ EXCEPT !.pc = "compare", !.rec = rec]]
  /\ UNCHANGED <<now, deletedAt, kc, resetToken, reactToken, resetReq, reactReq,
                 resetCall, TokenFrame>>

\* account.reactivation.service.ts:85-89: the secret is compared; keycloakEnableUser
\* is called.
ReactCompare(c) ==
  /\ reactCall[c].pc = "compare"
  /\ reactCall' = [reactCall EXCEPT ![c] =
       IF BcryptCompare(reactCall[c].secret, reactCall[c].rec.tokenHash)
         THEN [@ EXCEPT !.pc = "kcEnable", !.kcCalls = @ + 1]
         ELSE [@ EXCEPT !.pc = "done", !.result = "INVALID_TOKEN"]]
  /\ UNCHANGED <<now, deletedAt, kc, resetToken, reactToken, resetReq, reactReq,
                 resetCall, TokenFrame>>

\* part_004:107-119, account.reactivation.service.ts:89-102: Keycloak enables the
\* user, or the call rejects and confirmReactivation throws; then the transaction
\* is issued.
ReactKcEnable(c, ok) ==
  LET u == reactCall[c].rec.userId IN
  /\ reactCall[c].pc = "kcEnable"
  /\ IF ok
       THEN /\ kc' = [kc EXCEPT ![u] = [@ EXCEPT !.enabled = TRUE]]
            /\ reactCall' = [reactCall EXCEPT ![c] = [@ EXCEPT !.pc = "tx"]]
       ELSE /\ reactCall' = [reactCall EXCEPT ![c] =
                 [@ EXCEPT !.pc = "done", !.result = "KEYCLOAK_ERROR"]]
            /\ UNCHANGED kc
  /\ UNCHANGED <<now, deletedAt, resetToken, reactToken, resetReq, reactReq, resetCall,
                 TokenFrame>>

\* account.reactivation.service.ts:91-105: the transaction sets usedAt and clears
\* deletedAt, and the call returns; or it rejects, the catch block calls
\* keycloakDisableUser and the error is dropped.
ReactTx(c, ok) ==
  LET u == reactCall[c].rec.userId IN
  /\ reactCall[c].pc = "tx"
  /\ IF ok
       THEN /\ reactToken' = [reactToken EXCEPT ![reactCall[c].id] =
                 [@ EXCEPT !.usedAt = TRUE]]
            /\ deletedAt' = [deletedAt EXCEPT ![u] = FALSE]
            /\ reactCall' = [reactCall EXCEPT ![c] =
                 [@ EXCEPT !.pc = "done", !.result = "ok", !.marked = TRUE,
                           !.wroteUser = TRUE]]
       ELSE /\ reactCall' = [reactCall EXCEPT ![c] =
                 [@ EXCEPT !.pc = "kcDisable", !.kcCalls = @ + 1]]
            /\ UNCHANGED <<reactToken, deletedAt>>
  /\ UNCHANGED <<now, kc, resetToken, resetReq, reactReq, resetCall, TokenFrame>>

\* part_004:71-86, account.reactivation.service.ts:103-107: Keycloak disables the
\* user and confirmReactivation returns normally; or the call rejects and
\* confirmReactivation throws.
ReactKcDisable(c, ok) ==
  LET u == reactCall[c].rec.userId IN
  /\ reactCall[c].pc = "kcDisable"
  /\ IF ok
       THEN /\ kc' = [kc EXCEPT ![u] = [@ EXCEPT !.enabled = FALSE]]
            /\ reactCall' = [reactCall EXCEPT ![c] =
                 [@ EXCEPT !.pc = "done", !.result = "ok"]]
       ELSE /\ reactCall' = [reactCall EXCEPT ![c] =
                 [@ EXCEPT !.pc = "done", !.result = "KEYCLOAK_ERROR"]]
            /\ UNCHANGED kc
  /\ UNCHANGED <<now, deletedAt, resetToken, reactToken, resetReq, reactReq, resetCall,
                 TokenFrame>>

\* Date.now() advances.
Tick(d) ==
  /\ now + d <= MaxNow
  /\ now' = now + d
  /\ UNCHANGED <<deletedAt, kc, resetToken, reactToken, resetReq, reactReq, resetCall,
                 reactCall, TokenFrame>>

\* The user is active, or deactivated as DELETE /api/users/me leaves it
\* (user.routes.ts:205-213: deletedAt set, disabled in Keycloak).
TokenInit ==
  /\ credits = [u \in Users |-> 0]
  /\ subscription = [u \in Users |-> "none"]
  /\ transformation = [j \in JobIds |-> NoRow]
  /\ cache = [j \in JobIds |-> NoJob]
  /\ queue = <<>>
  /\ n8n = [j \in JobIds |-> "none"]
  /\ start = [r \in StartReqs |-> IdleStart]
  /\ grants = [n |-> 0, result |-> 0]
  /\ published = <<>>
  /\ hook = [c \in HookCalls |-> IdleHook]
  /\ order = [o \in OrderIds |-> NoOrder]
  /\ payHook = [c \in PayHooks |-> IdlePayHook]
  /\ subReq = [r \in SubReqs |-> IdleSubReq]
  /\ providerSubs = [u \in Users |-> 0]
  /\ subHooks = [n |-> 0, result |-> 0]
  /\ now = 0
  /\ \E del \in BOOLEAN :
       /\ deletedAt = [u \in Users |-> del]
       /\ kc = [u \in Users |-> [enabled |-> ~del, password |-> "p0", resets |-> 0]]
  /\ resetToken = [t \in TokenIds |-> NoToken]
  /\ reactToken = [t \in TokenIds |-> NoToken]
  /\ resetReq = [t \in TokenIds |-> IdleReq]
  /\ reactReq = [t \in TokenIds |-> IdleReq]
  /\ resetCall = [c \in Confirms |-> IdleConfirm]
  /\ reactCall = [c \in Confirms |-> IdleConfirm]
  /\ EdgeInit

ResetSteps(calls) ==
  \/ \E t \in TokenIds, u \in Callers : ResetReqFindUser(t, u)
  \/ \E t \in TokenIds, s \in Secrets : ResetReqCreate(t, s, "sent")
  \/ \E c \in calls, t \in TokenIds, s \in Presented, p \in Passwords :
       ResetBegin(c, t, s, p)
  \/ \E c \in calls : ResetFind(c)
  \/ \E c \in calls : ResetCompare(c)
  \/ \E c \in calls : ResetMarkUsed(c)
  \/ \E c \in calls : ResetKeycloak(c)
  \/ \E c \in calls : ResetFail(c)

ReactSteps(calls) ==
  \/ \E t \in TokenIds, u \in Callers : ReactReqFindUser(t, u)
  \/ \E t \in TokenIds, s \in Secrets : ReactReqCreate(t, s, "sent")
  \/ \E c \in calls, t \in TokenIds, s \in Presented : ReactBegin(c, t, s)
  \/ \E c \in calls : ReactFind(c)
  \/ \E c \in calls : ReactCompare(c)
  \/ \E c \in calls, ok \in BOOLEAN : ReactKcEnable(c, ok)
  \/ \E c \in calls, ok \in BOOLEAN : ReactTx(c, ok)
  \/ \E c \in calls, ok \in BOOLEAN : ReactKcDisable(c, ok)

ResetNext == ResetSteps(Confirms)
ReactNext == ReactSteps(Confirms)

\* one confirm call of each kind, under a moving clock
ExpiryNext ==
  \/ ResetSteps({1})
  \/ ReactSteps({1})
  \/ \E d \in TickMinutes : Tick(d)

SpecReset == TokenInit /\ [][ResetNext]_vars
SpecReact == TokenInit /\ [][ReactNext]_vars
SpecExpiry == TokenInit /\ [][ExpiryNext]_vars
SpecAuth == TokenInit /\ [][AuthNext]_vars

\* the two request routes alone, with every outcome of the insert and the mail
AskNext ==
  \/ \E t \in TokenIds, u \in Callers : ResetReqFindUser(t, u)
  \/ \E t \in TokenIds, s \in Secrets, o \in CreateOutcomes : ResetReqCreate(t, s, o)
  \/ \E t \in TokenIds, u \in Callers : ReactReqFindUser(t, u)
  \/ \E t \in TokenIds, s \in Secrets, o \in CreateOutcomes : ReactReqCreate(t, s, o)
  \/ \E d \in TickMinutes : Tick(d)

SpecAsk == TokenInit /\ [][AskNext]_vars

\* ================================================== start-up and connectRedis

\* mutation of AlreadyDone: the done flag is not consulted
NeverDone(b) == FALSE
\* redis.service.ts:37, 44: if (done) return
AlreadyDone(b) == b.done

\* a promise takes the first settlement and ignores the later ones
Settle(b, outcome, cause) ==
  [b EXCEPT !.done = TRUE, !.on = FALSE, !.calls = @ + 1,
            !.outcome = IF @ = "pending" THEN outcome ELSE @,
            !.cause = IF b.outcome = "pending" THEN cause ELSE @]

\* redis.service.ts:36-41
FinishOk(b) == IF AlreadyDone(b) THEN b ELSE Settle(b, "resolved", "ready")

\* redis.service.ts:43-53
FinishFail(b, cause) ==
  IF AlreadyDone(b) THEN b
  ELSE Settle(b, IF b.optional THEN "resolved" ELSE "rejected", cause)

\* server.ts:96-103, redis.service.ts:27-77: connectDatabase settles. On success
\* connectRedis is called: it reads the environment, registers onReady and
\* onError and arms the timeout; on failure the process exits.
ConnectDatabaseSettles(ok, optional) ==
  /\ boot.pc = "db"
  /\ boot' = IF ok
       THEN [boot EXCEPT !.pc = "redis", !.optional = optional, !.on = TRUE,
                         !.timer = "armed", !.readyAll = (boot.client = "ready")]
       ELSE [boot EXCEPT !.pc = "exited"]
  /\ UNCHANGED BootFrame

\* redis.service.ts:9-16, 55-58: the client emits 'ready'; onReady runs when it
\* is registered.
ClientReady ==
  /\ boot.pc # "exited"
  /\ boot.client = "connecting"
  /\ boot.events < MaxClientEvents
  /\ LET b == [boot EXCEPT !.client = "ready", !.events = @ + 1] IN
       boot' = IF b.on THEN FinishOk(b) ELSE b
  /\ UNCHANGED BootFrame

\* redis.service.ts:11-15, 60-63: the client emits 'error' and retries; onError
\* runs when it is registered.
ClientError ==
  /\ boot.pc # "exited"
  /\ boot.events < MaxClientEvents
  /\ LET b == [boot EXCEPT !.client = "connecting", !.events = @ + 1,
                           !.readyAll = FALSE] IN
       boot' = IF b.on THEN FinishFail(b, "error") ELSE b
  /\ UNCHANGED BootFrame

\* redis.service.ts:74-76: the timeout callback runs.
ConnectTimeout ==
  /\ boot.pc # "exited"
  /\ boot.timer = "armed"
  /\ boot' = FinishFail([boot EXCEPT !.timer = "fired"], "timeout")
  /\ UNCHANGED BootFrame

\* server.ts:103-114: startServer resumes after connectRedis: listen, or
\* process.exit(1).
StartServerResumes ==
  /\ boot.pc = "redis"
  /\ boot.outcome # "pending"
  /\ boot' = [boot EXCEPT !.pc = IF boot.outcome = "resolved" THEN "listening"
                                                             ELSE "exited"]
  /\ UNCHANGED BootFrame

BootNext ==
  \/ \E ok \in BOOLEAN, optional \in BOOLEAN : ConnectDatabaseSettles(ok, optional)
  \/ ClientReady
  \/ ClientError
  \/ ConnectTimeout
  \/ StartServerResumes

SpecBoot == TokenInit /\ [][BootNext]_vars

\* ----------------------------------------------------------- claims, /start

InQueue(j) == \E i \in 1..Len(queue) : queue[i] = j

\* C1: a user's credit balance is never negative, under any interleaving of
\* concurrent POST /api/transform/start requests and credit grants.
C1_CreditsNeverNegative == \A u \in Users : credits[u] >= 0

\* C7: for a user without an active subscription, a finished POST /start request
\* has created a Transformation row if and only if it has deducted exactly one
\* credit, whatever the outcome of the request.
C7_CreateIffDeduct ==
  \A r \in StartReqs :
    (start[r].pc = "done" /\ start[r].found /\ ~start[r].active)
      => ((transformation[r].status # "absent") <=> (start[r].deducted = 1))

\* C8: a POST /start request that finds the user with zero credits and no active
\* subscription is answered 402 and has no effect: no Transformation row, no
\* cached or queued job, no workflow trigger, no credit deducted.
C8_NoCreditsNoEffect ==
  \A r \in StartReqs :
    (start[r].found /\ start[r].credits = 0 /\ ~start[r].active)
      => /\ start[r].pc = "done"
         /\ start[r].result = 402
         /\ transformation[r] = NoRow
         /\ cache[r] = NoJob
         /\ ~InQueue(r)
         /\ n8n[r] = "none"
         /\ start[r].deducted = 0

C8_Witness ==
  \E r \in StartReqs :
    /\ start[r].result = 402
    /\ start[r].credits = 0
    /\ \E q \in StartReqs : q # r /\ start[q].result = 202

\* ------------------------------------------------- claims, completion webhook

Final == {"completed", "failed"}

\* C5: a Transformation's status only moves from pending to completed or failed:
\* once completed or failed it never changes again, in the database row and in
\* the cached record (while it is cached), whatever webhooks are delivered.
C5_StatusNeverLeavesFinal ==
  [][\A j \in JobIds :
       /\ transformation[j].status \in Final
            => transformation'[j].status = transformation[j].status
       /\ (cache[j].status \in Final /\ cache'[j].status # "absent")
            => cache'[j].status = cache[j].status]_vars

\* updateTransformationStatus has returned normally in call c
Returned(c) == hook[c].pc = "done" /\ hook[c].result = 200

ExpectedEvent(c) ==
  [channel |-> "transformation:complete", jobId |-> hook[c].job,
   userId |-> hook[c].existing.userId,
   status |-> IF hook[c].body.status = "success" THEN "completed" ELSE "failed",
   outputUrl |-> hook[c].body.outputUrl, error |-> hook[c].body.error]

IsPublished(e) == \E i \in 1..Len(published) : published[i] = e

WriteStep(c) == hook[c].pc = "setCache" /\ hook'[c].pc = "publish"

C6_OrderNeverLeavesFinal ==
  [][\A o \in OrderIds :
       order[o].status \in Final => order'[o].status = order[o].status]_vars

\* ------------------------------------------------------- claims, /subscribe

\* C9: POST /subscribe starts a provider subscription only when the user has no
\* active subscription, also under concurrency: no provider subscription is
\* created while the user's subscription is active, at most one is created for a
\* user who has none yet, and a request that finds an active subscription is
\* answered 400.
C9_SubscribeOnlyWhenNotActive ==
  /\ \A r \in SubReqs :
       /\ (subReq[r].pc = "done" /\ subReq[r].result = 200) => ~subReq[r].activeAtCall
       /\ subReq[r].seen = "active" => (subReq[r].pc = "done" /\ subReq[r].result = 400)
  /\ \A u \in Users : subHooks.n = 0 => providerSubs[u] <= 1

\* --------------------------------------------------------------- claims, tokens

\* C2: a password reset token is single-use: over any interleaving of
\* confirmPasswordReset calls presenting it, at most one call succeeds and the
\* Keycloak password reset is invoked at most once.
C2_ResetTokenSingleUse ==
  \A t \in TokenIds :
    /\ Cardinality({c \in Confirms : resetCall[c].id = t /\ resetCall[c].result = "ok"}) <= 1
    /\ Cardinality({c \in Confirms : resetCall[c].id = t /\ resetCall[c].kcCalls > 0}) <= 1

\* C3: an account reactivation token is single-use: over any sequence of
\* confirmReactivation calls presenting it, failed transactions and Keycloak
\* calls included, at most one call returns successfully.
C3_ReactTokenSingleUse ==
  \A t \in TokenIds :
    Cardinality({c \in Confirms : reactCall[c].id = t /\ reactCall[c].result = "ok"}) <= 1

\* a confirm call made after the token's expiresAt: it is refused with
\* INVALID_TOKEN and has written nothing and called nothing
Refused(call) ==
  /\ call.pc \in {"find", "done"}
  /\ call.pc = "done" => call.result = "INVALID_TOKEN"
  /\ ~call.marked /\ call.kcCalls = 0 /\ ~call.wroteUser

C4_WitnessReact ==
  \E c \in Confirms :
    LET call == reactCall[c]
        tok == reactToken[call.id] IN
    /\ call.late /\ call.pc = "done" /\ call.result = "INVALID_TOKEN"
    /\ BcryptCompare(call.secret, tok.tokenHash)
    /\ ~tok.usedAt /\ deletedAt[tok.userId]

\* ------------------------------------------------------------------ C11
\* the database has the job of the request, and it is the caller's
OwnRow(q) ==
  /\ transformation[statusReq[q].job].status # "absent"
  /\ transformation[statusReq[q].job].userId = statusReq[q].caller

\* C11: GET /status/:jobId is cache-aside.  When the cache lookup resolves, a
\* cached record is the 200 response and a miss leads to the database lookup
\* without any response; when the database lookup resolves, the caller's row is
\* the 200 response and 404 is answered only if the database has no such job
\* for the caller.  A request answered 404 is never one whose job exists in the
\* database for its caller.
C11_CacheAside ==
  /\ [][\A q \in StatusReqs :
         /\ (statusReq[q].pc = "getCache" /\ statusReq'[q].pc # "getCache"
              /\ statusReq'[q].result # 500)
             => IF cache[statusReq[q].job].status # "absent"
                  THEN /\ statusReq'[q].pc = "done"
                       /\ statusReq'[q].result = 200
                       /\ statusReq'[q].body = "cache"
                       /\ statusReq'[q].cached = cache[statusReq[q].job]
                  ELSE /\ statusReq'[q].pc = "findFirst"
                       /\ statusReq'[q].result = 0
         /\ (statusReq[q].pc = "findFirst" /\ statusReq'[q].pc = "done"
              /\ statusReq'[q].result # 500)
             => IF OwnRow(q)
                  THEN /\ statusReq'[q].result = 200
                       /\ statusReq'[q].body = "db"
                       /\ statusReq'[q].row = transformation[statusReq[q].job]
                  ELSE statusReq'[q].result = 404]_vars
  /\ [](\A q \in StatusReqs : statusReq[q].result = 404 => ~OwnRow(q))

\* a request was answered from the database after a cache miss, with a row the
\* completion webhook had written
C11_Witness ==
  \E q \in StatusReqs :
    /\ statusReq[q].result = 200 /\ statusReq[q].body = "db"
    /\ cache[statusReq[q].job].status = "absent" /\ OwnRow(q)
    /\ statusReq[q].row.status = "completed"

\* ------------------------------------------------------------------ C12
\* delivery c was a payment confirmation of a credits order and was answered 200
Confirmed200(c) ==
  /\ payHook[c].pc = "done" /\ payHook[c].result = 200
  /\ payHook[c].orderId # 0
  /\ OrderStatusOf(payHook[c].event) = "completed"
  /\ order[payHook[c].orderId].type = "credits"

\* the package credits of the confirmed deliveries among 1..n
RECURSIVE CreditsConfirmed(_)
CreditsConfirmed(n) ==
  IF n = 0 THEN 0
  ELSE CreditsConfirmed(n - 1)
       + (IF Confirmed200(n) THEN order[payHook[n].orderId].credits ELSE 0)

CreditsAdded == SelectSeq(published, LAMBDA e : e.type = "credits_added")

ResultFields(rec) == <<rec.status, rec.outputUrl, rec.error>>
CallFields(c) ==
  <<JobStatusOf(hook[c].body.status), hook[c].body.outputUrl, hook[c].body.error>>
\* call c found a cached record and went past its setCache
PastWrite(c) == hook[c].existing # NoJob /\ hook[c].pc \in {"publish", "done"}

\* C13: last write wins on the job cache key.  The step in which a call's cache
\* write executes leaves the record with that call's status, outputUrl and
\* error; and at every moment the cached record carries the pending record's
\* fields or the three fields of one single call for that job, never a field
\* that an earlier call wrote beside the fields of a later one.
C13_LastWriteWins ==
  /\ [][\A c \in HookCalls :
         WriteStep(c) => ResultFields(cache'[hook[c].job]) = CallFields(c)]_vars
  /\ [](\A j \in JobIds :
         cache[j] # NoJob =>
           \/ ResultFields(cache[j]) = <<"pending", "undef", "undef">>
           \/ \E c \in HookCalls :
                /\ PastWrite(c) /\ hook[c].job = j
                /\ ResultFields(cache[j]) = CallFields(c))

\* two calls for one job both read the pending record before either wrote, both
\* wrote different results, and the record carries the fields of d alone
C13_Witness ==
  \E c, d \in HookCalls :
    /\ c # d /\ hook[c].job = hook[d].job
    /\ hook[c].existing.status = "pending" /\ hook[d].existing.status = "pending"
    /\ hook[c].pc = "done" /\ hook[c].result = 200
    /\ hook[d].pc = "done" /\ hook[d].result = 200
    /\ CallFields(c) # CallFields(d)
    /\ ResultFields(cache[hook[d].job]) = CallFields(d)

\* ------------------------------------------------------------------ C14
\* the token that is signed for subject u
SignedFor(u) == IF u = "u1" THEN "jwt:u1" ELSE "jwt:u2"
\* socket s is in the clients map
Registered(s) == \E u \in WsSubjects : s \in clients[u]
\* the relayed events among the messages socket s was sent
Relayed(s) == {m \in socket[s].got : m.type # "connected"}

\* C14: a connection made without a token is closed with 4001 and one whose
\* token does not verify with 4002; neither is ever in the clients map or sent
\* anything.  The sockets registered for u, and so the sockets sendToUser(u, _)
\* writes to, authenticated with a token signed for u, and every relayed event
\* a socket was sent carries the subject of that socket's token.
C14_RelayOnlyToOwner ==
  /\ \A s \in Sockets :
       /\ (socket[s].state # "none" /\ socket[s].token = "")
          => (socket[s].state = "closed" /\ socket[s].code = 4001
              /\ ~Registered(s) /\ socket[s].got = {})
       /\ (socket[s].state # "none" /\ socket[s].token = "bad")
          => (socket[s].state = "closed" /\ socket[s].code = 4002
              /\ ~Registered(s) /\ socket[s].got = {})
       /\ \A m \in Relayed(s) : socket[s].token = SignedFor(m.userId)
  /\ \A u \in WsSubjects :
       /\ \A s \in clients[u] : socket[s].token = SignedFor(u)
       /\ \A s \in SendToUser(u) :
            socket[s].token = SignedFor(u) /\ socket[s].state = "open"

\* one connection was refused for a bad token and another is registered and open
\* for u1 while an event of u1 has reached the WebSocket process
C14_Witness ==
  \E s, t \in Sockets :
    /\ socket[s].state = "closed" /\ socket[s].code = 4002
    /\ t \in SendToUser("u1")
    /\ ws.arrived >= 1 /\ published[1].userId = "u1"

\* ------------------------------------------------------------------ C15
\* C15: every published event that has reached the WebSocket process has been
\* sent, wrapped as {type: <channel>, payload: <event>}, to every socket that
\* was registered for its user and open when it arrived.  (A handler of the
\* arriving message would run in the tick in which the message arrives, so
\* nothing is left to happen after the arrival.)
C15_ArrivedEventsAreSent ==
  \A p \in ws.due : Wrapped(published[p[2]]) \in socket[p[1]].got

\* ------------------------------------------------------------------ C16
\* no Order, Subscription, credit balance, Transformation or cached job record
\* has changed and no event was published
NothingChanged ==
  /\ \A j \in JobIds : /\ transformation[j].status \in {"absent", "pending"}
                         /\ cache[j].status \in {"absent", "pending"}
  /\ \A o \in OrderIds : order[o].status \in {"absent", "pending"}
  /\ \A u \in Users : credits[u] = 0 /\ subscription[u] = "none"
  /\ published = <<>>

\* C16: webhooks are provider-signed.  As long as no webhook request carried
\* the provider's signature or access token, nothing has changed and nothing
\* was published, whether the webhook secrets are set or not.
C16_InvalidSignatureNoEffect ==
  ("good" \notin gate.n8n \cup gate.asaas \cup gate.stripe) => NothingChanged

\* ------------------------------------------------------------------ C17
\* C17: a request reaches its route handler only if its bearer token is active
\* at Keycloak and the token's user is not soft-deleted at the time of the
\* request, taken here as: at some moment between the request's arrival and
\* the call of next().
C17_HandlerOnlyIfActive ==
  \A r \in AuthReqs : mw[r].pc \in {"handler", "inDelete"} => mw[r].okDuring

\* ------------------------------------------------------------------ C18
\* C18: keycloakDisableAndLogoutUser is logout-then-disable, best effort.  Once
\* it has been called and is over, the logout was attempted first and the
\* disable second, whatever the logout's outcome, and it threw
\* KEYCLOAK_DISABLE_FAILED exactly when the disable call failed; while it runs,
\* the first attempt is the logout.
C18_LogoutThenDisable ==
  /\ Len(kcLog) >= 1 => kcLog[1][1] = "logout"
  /\ (deleteMe.pc = "done" /\ deleteMe.result # "DB_ERROR")
     => /\ Len(kcLog) = 2
        /\ kcLog[1][1] = "logout" /\ kcLog[2][1] = "disable"
        /\ (deleteMe.result = "KEYCLOAK_DISABLE_FAILED") <=> ~kcLog[2][2]
        /\ kcLog[2][2] => deleteMe.result = "200"

\* the logout failed, the disable was attempted all the same and succeeded, and
\* the route answered 200
C18_Witness ==
  /\ deleteMe.pc = "done" /\ deleteMe.result = "200"
  /\ kcLog = << <<"logout", FALSE>>, <<"disable", TRUE>> >>
  /\ ~kc["u1"].enabled

\* ------------------------------------------------------------------ C19
\* C19: in POST /api/transform/start the workflow trigger of the request's job
\* has finished, with success or with failure, before the credit is deducted
\* and before the 202 is sent.
C19_TriggerAwaited ==
  \A r \in StartReqs :
    (start[r].deducted > 0 \/ start[r].result = 202) => n8n[r] \in {"ok", "failed"}

\* ------------------------------------------------------------------ C20
\* C20: every order that a payment webhook has moved from pending to completed
\* or to failed, the webhook having been answered, has an event on the
\* 'order:update' channel that carries the owning user's id.
C20_OrderUpdatePublished ==
  \A c \in PayHooks :
    (payHook[c].pc = "done" /\ payHook[c].result = 200 /\ payHook[c].orderId \in OrderIds
       /\ order[payHook[c].orderId].status \in {"completed", "failed"})
    => \E i \in 1..Len(published) :
         /\ published[i].channel = "order:update"
         /\ published[i].userId = order[payHook[c].orderId].userId

\* ------------------------------------------------------------------ C21
\* C21: POST /api/auth/password-reset and POST /api/auth/reactivate-request
\* answer every request with the same 200, whether the e-mail belongs to no
\* user, to an active user or to a deactivated one, and whether the token insert
\* and the mail succeed or fail.
C21_SameAnswer ==
  \A t \in TokenIds :
    /\ resetReq[t].pc = "done" => resetReq[t].reply = 200
    /\ reactReq[t].pc = "done" => reactReq[t].reply = 200

\* a reset request whose service rejected and a reactivation request that
\* returned early for a user who is not deactivated, both answered
C21_Witness ==
  \E t \in TokenIds :
    /\ resetReq[t].pc = "done" /\ resetReq[t].threw /\ resetReq[t].reply = 200
    /\ reactReq[t].pc = "done" /\ ~reactReq[t].threw /\ reactReq[t].reply = 200
    /\ ~reactToken[t].exists

\* ------------------------------------------------------------------ C22
\* C22: connectRedis settles exactly once whatever the 'ready' events, 'error'
\* events and the timeout: resolve or reject is invoked at most once; a 'ready'
\* settles it as resolved; an error or the timeout settles it as resolved when
\* Redis is optional and as rejected otherwise; once the timeout callback has
\* run it is settled.
C22_SettlesOnce ==
  /\ boot.calls <= 1
  /\ (boot.outcome # "pending") <=> (boot.calls = 1)
  /\ boot.cause = "ready" => boot.outcome = "resolved"
  /\ boot.cause \in {"error", "timeout"}
       => boot.outcome = (IF boot.optional THEN "resolved" ELSE "rejected")
  /\ boot.timer = "fired" => boot.outcome # "pending"

\* settled by an error, after which a 'ready' arrived and the timeout ran
C22_Witness ==
  /\ boot.cause = "error" /\ boot.outcome = "rejected"
  /\ boot.timer = "fired" /\ boot.client = "ready" /\ boot.calls = 1

\* ------------------------------------------------------------------ C23
\* C23: connectRedis does not reject while the Redis client is ready: a call
\* made when the client was already ready, the client staying ready, is not
\* settled as rejected.
C23_ReadyClientResolves == ~(boot.outcome = "rejected" /\ boot.readyAll)

C25_OnlyOwnerReads ==
  \A q \in StatusReqs :
    (/\ statusReq[q].pc = "done"
     /\ transformation[statusReq[q].job].status # "absent"
     /\ transformation[statusReq[q].job].userId # statusReq[q].caller)
    => statusReq[q].result # 200 /\ statusReq[q].body = "none"

\* ------------------------------------------------------------------ C26
\* C26: a request of a user who holds none of the required roles, answered 403
\* 'Insufficient permissions' by keycloakMiddlewareWithRoles, has not reached
\* the downstream handler.
C26_RolesBeforeHandler ==
  \A r \in AuthReqs : mw[r].roles = "403" => mw[r].pc \notin {"handler", "inDelete"}

\* ------------------------------------------------------------------ C27
\* C27: when no completion webhook request is in progress, at least one was
\* made and all of them were answered 200, every job that has a cached record
\* has the same status in the cache and in its Transformation row.
C27_CacheAgreesWithRow ==
  (/\ \A c \in HookCalls : hook[c].pc \in {"idle", "done"}
   /\ \E c \in HookCalls : hook[c].pc = "done"
   /\ \A c \in HookCalls : hook[c].pc = "done" => hook[c].result = 200)
  => \A j \in JobIds :
       cache[j].status # "absent" => cache[j].status = transformation[j].status

\* ------------------------------------------------------------------ C28
\* C28: Keycloak and the database agree about activation: once DELETE
\* /api/users/me has finished, with a response or with an error, the Keycloak
\* user is enabled exactly when deletedAt is null.
C28_KeycloakAgreesWithDb ==
  deleteMe.pc = "done" => \A u \in Users : kc[u].enabled <=> ~deletedAt[u]

\* ------------------------------------------------------------------ C29
\* C29: a confirmReactivation call that returned without error left the token
\* marked used and the user's deletedAt cleared.
C29_OkOnlyIfReactivated ==
  \A c \in Confirms :
    reactCall[c].result = "ok"
      => /\ reactToken[reactCall[c].id].usedAt
         /\ ~deletedAt[reactToken[reactCall[c].id].userId]

====
